---- MODULE Spec2Model ----
(***************************************************************************)
(* Model of the Wordle backend: the feedback scorer and fixed-answer       *)
(* session (game.js), the adversarial "cheating" session                   *)
(* (cheatingGame.js), the game factory (gameFactory.js), the room          *)
(* (multiplayerGame.js), the room registry (roomManager.js) and the event  *)
(* handlers of the socket server.                                          *)
(*                                                                         *)
(* A string is a sequence of one-character strings, so that toUpperCase,   *)
(* split(''), length and the regular expression are modelled by what they  *)
(* do.  Indices are 1-based here and 0-based in the source.                *)
(*                                                                         *)
(* Specifications:                                                         *)
(*   Spec        one session (either kind) of any maxRounds from 0 up, any *)
(*               sequence of makeGuess and getState calls with raw guesses *)
(*   ScoreSpec   both scoreGuess methods applied to pairs of words         *)
(*   SelectSpec  selectWorstAnswer applied to candidate lists in any order *)
(*               and to guesses as makeGuess hands them over               *)
(*   RoomSpec    rooms of any game mode a client asks for: clients join,   *)
(*               start, guess, mark ready, leave, disconnect and rejoin in *)
(*               any order; one sweep timeout per disconnect               *)
(*   RoundSpec   one room whose clients join, start and guess until every  *)
(*               session of the round is over                              *)
(*   MatchSpec   one room played through all its rounds to FINISHED; the   *)
(*               timeout of a disconnect fires before the next event       *)
(*   SweepSpec   RoomSpec with the passing of the room timeout and the     *)
(*               periodic room cleanup, under fairness of the timers       *)
(*   ExampleSpec one adversarial session on the word list of the README's  *)
(*               example flow                                              *)
(*   DrawSpec    one room whose rounds draw their secret from the room's   *)
(*               word list                                                 *)
(*   TwinSpec    two adversarial sessions built alike and given the same   *)
(*               calls one after the other, Math.random moving in between  *)
(*   FinishSpec  one room whose clients stay and keep guessing, under weak *)
(*               fairness of each client's guess event                     *)
(***************************************************************************)
EXTENDS Integers, Sequences, FiniteSets, TLC

VARIABLES
  pc,         \* position of the harness that applies a pure function
  inGuess,    \* argument: the guess handed to scoreGuess / selectWorstAnswer
  inAnswer,   \* argument: this.answer / this.currentAnswer of the scorer
  inCands,    \* argument: this.candidates of selectWorstAnswer
  feedback,   \* value returned by scoreGuess
  worst,      \* value returned by selectWorstAnswer
  game,       \* the session object (WordleGame or CheatingWordleGame)
  prev,       \* the session object as it was before the last call
  call,       \* the last call on game: operation, raw guess, returned or threw
  result,     \* value returned by the last call on game
  twin,       \* a second session given the same calls as game after it, what it
              \* returned, and what Math.random returns to a call made now
  rooms,      \* RoomManager.rooms: roomId -> MultiplayerGame
  sweepTimer  \* the pending timeouts armed by the disconnect handler, oldest first

vars == <<pc, inGuess, inAnswer, inCands, feedback, worst, game, prev, call, result, twin,
          rooms, sweepTimer>>

----------------------------------------------------------------------------
(* Strings and characters *)

UpperLetters == <<"A","B","C","D","E","F","G","H","I","J","K","L","M",
                  "N","O","P","Q","R","S","T","U","V","W","X","Y","Z">>
LowerLetters == <<"a","b","c","d","e","f","g","h","i","j","k","l","m",
                  "n","o","p","q","r","s","t","u","v","w","x","y","z">>

AZ == {UpperLetters[k] : k \in 1..Len(UpperLetters)}

\* JavaScript values that are not strings
Null == <<"null">>
Undefined == <<"undefined">>
UndefinedList == <<Undefined>>

\* the value of arr[i] in JavaScript: undefined beyond the end of the array
At(arr, i) == IF i \in 1..Len(arr) THEN arr[i] ELSE "undefined"

Includes(arr, c) == \E k \in 1..Len(arr) : arr[k] = c

Min(S) == CHOOSE x \in S : \A y \in S : x <= y

\* the upper-case letter of each lower-case letter
upperOf ==
  [c \in {LowerLetters[k] : k \in 1..Len(LowerLetters)} |->
     UpperLetters[CHOOSE k \in 1..Len(LowerLetters) : LowerLetters[k] = c]]

toUpperCaseChar(c) == IF c \in DOMAIN upperOf THEN upperOf[c] ELSE c

toUpperCase(s) == [k \in 1..Len(s) |-> toUpperCaseChar(s[k])]

\* /^[A-Z]{5}$/.test(word)
matchesAZ5(word) == Len(word) = 5 /\ \A k \in 1..Len(word) : word[k] \in AZ

----------------------------------------------------------------------------
(* Feedback scorer *)

\* first pass of scoreGuess: result and answerUsed after the hits loop
hitsPass(guessArr, answerArr) ==
  [result     |-> [i \in 1..5 |-> IF At(guessArr, i) = At(answerArr, i) THEN "hit" ELSE "miss"],
   answerUsed |-> [i \in 1..5 |-> At(guessArr, i) = At(answerArr, i)]]

\* second pass of scoreGuess, from guess position i on
RECURSIVE presentsPass(_, _, _, _, _)
presentsPass(i, guessArr, answerArr, res, answerUsed) ==
  IF i > 5 THEN res
  ELSE IF res[i] = "hit" THEN presentsPass(i + 1, guessArr, answerArr, res, answerUsed)
  ELSE LET J == {j \in 1..5 : ~answerUsed[j] /\ At(guessArr, i) = At(answerArr, j)}
       IN  IF J = {} THEN presentsPass(i + 1, guessArr, answerArr, res, answerUsed)
           ELSE presentsPass(i + 1, guessArr, answerArr,
                             [res EXCEPT ![i] = "present"],
                             [answerUsed EXCEPT ![Min(J)] = TRUE])

\* a scorer that forgets to consume the matched answer position
scoreGuessNoConsume(guess, answer) ==
  LET guessArr == toUpperCase(guess)
  IN  [i \in 1..5 |-> IF At(guessArr, i) = At(answer, i) THEN "hit"
                      ELSE IF \E j \in 1..5 : At(guessArr, i) = At(answer, j)
                                              /\ At(guessArr, j) # At(answer, j)
                           THEN "present" ELSE "miss"]

\* a scorer that makes one pass: a present may consume a position that is a hit later
RECURSIVE onePass(_, _, _, _, _)
onePass(i, guessArr, answerArr, res, answerUsed) ==
  IF i > 5 THEN res
  ELSE IF At(guessArr, i) = At(answerArr, i)
  THEN onePass(i + 1, guessArr, answerArr, [res EXCEPT ![i] = "hit"],
               [answerUsed EXCEPT ![i] = TRUE])
  ELSE LET J == {j \in 1..5 : ~answerUsed[j] /\ At(guessArr, i) = At(answerArr, j)}
       IN  IF J = {} THEN onePass(i + 1, guessArr, answerArr, res, answerUsed)
           ELSE onePass(i + 1, guessArr, answerArr, [res EXCEPT ![i] = "present"],
                        [answerUsed EXCEPT ![Min(J)] = TRUE])

scoreGuessOnePass(guess, answer) ==
  onePass(1, toUpperCase(guess), answer, [i \in 1..5 |-> "miss"], [i \in 1..5 |-> FALSE])

\* WordleGame.scoreGuess, with this.answer as second argument
scoreGuess(guess, answer) ==
  LET guessArr == toUpperCase(guess)
      first == hitsPass(guessArr, answer)
  IN  presentsPass(1, guessArr, answer, first.result, first.answerUsed)

\* CheatingWordleGame.scoreGuess, with this.currentAnswer as second argument
cheatingScoreGuess(guess, currentAnswer) ==
  LET guessArr == toUpperCase(guess)
      first == hitsPass(guessArr, currentAnswer)
  IN  presentsPass(1, guessArr, currentAnswer, first.result, first.answerUsed)

----------------------------------------------------------------------------
(* Fixed-answer session: WordleGame *)

\* WordleGame.constructor; rnd is the index drawn by Math.random when no answer is given
WordleGame(wordList, maxRounds, answer, rnd) ==
  LET list == [k \in 1..Len(wordList) |-> toUpperCase(wordList[k])]
  IN  [kind          |-> "normal",
       wordList      |-> list,
       maxRounds     |-> maxRounds,
       answer        |-> IF answer # Null THEN toUpperCase(answer) ELSE list[rnd],
       candidates    |-> UndefinedList,
       currentAnswer |-> Undefined,
       guesses       |-> << >>,
       status        |-> "IN_PROGRESS"]

\* WordleGame.validateGuess and CheatingWordleGame.validateGuess (same text)
validateGuess(guess) ==
  LET word == toUpperCase(guess)
  IN  IF Len(word) # 5 THEN [valid |-> FALSE, reason |-> "Guess must be 5 letters"]
      ELSE IF ~matchesAZ5(word) THEN [valid |-> FALSE, reason |-> "Guess must be A-Z only"]
      ELSE [valid |-> TRUE]

\* a status assignment that tests the round limit before the win
statusAfterLimitFirst(g, guess, answer, nGuesses) ==
  IF nGuesses >= g.maxRounds THEN "LOSE"
  ELSE IF toUpperCase(guess) = answer THEN "WIN"
  ELSE g.status

\* the status assigned after the push, by both makeGuess methods
statusAfter(g, guess, answer, nGuesses) ==
  IF toUpperCase(guess) = answer THEN "WIN"
  ELSE IF nGuesses >= g.maxRounds THEN "LOSE"
  ELSE g.status

\* WordleGame.makeGuess past the status check: the session after the call and the
\* value returned
WordleGame_makeGuessInProgress(g, guess) ==
  IF ~validateGuess(guess).valid
  THEN [game |-> g, threw |-> FALSE,
        result |-> [valid |-> FALSE, reason |-> validateGuess(guess).reason]]
  ELSE LET fb == scoreGuess(guess, g.answer)
           guesses == Append(g.guesses, [guess |-> toUpperCase(guess), feedback |-> fb])
           status == statusAfter(g, guess, g.answer, Len(guesses))
       IN  [game |-> [g EXCEPT !.guesses = guesses, !.status = status],
            threw |-> FALSE,
            result |-> [valid      |-> TRUE,
                        feedback   |-> fb,
                        guesses    |-> guesses,
                        status     |-> status,
                        roundsLeft |-> g.maxRounds - Len(guesses),
                        answer     |-> IF status # "IN_PROGRESS" THEN g.answer ELSE Undefined]]

\* WordleGame.makeGuess
WordleGame_makeGuess(g, guess) ==
  IF g.status # "IN_PROGRESS"
  THEN [game |-> g, threw |-> FALSE,
        result |-> [valid |-> FALSE, reason |-> "Game is over", status |-> g.status]]
  ELSE WordleGame_makeGuessInProgress(g, guess)

\* WordleGame.getState
WordleGame_getState(g) ==
  [guesses    |-> g.guesses,
   status     |-> g.status,
   roundsLeft |-> g.maxRounds - Len(g.guesses),
   answer     |-> IF g.status # "IN_PROGRESS" THEN g.answer ELSE Undefined]

----------------------------------------------------------------------------
(* Adversarial session: CheatingWordleGame *)

\* CheatingWordleGame.constructor
CheatingWordleGame(wordList, maxRounds) ==
  LET list == [k \in 1..Len(wordList) |-> toUpperCase(wordList[k])]
  IN  [kind          |-> "cheating",
       wordList      |-> list,
       maxRounds     |-> maxRounds,
       answer        |-> Undefined,
       candidates    |-> list,
       currentAnswer |-> Null,
       guesses       |-> << >>,
       status        |-> "IN_PROGRESS"]

\* CheatingWordleGame.matchesFeedback
matchesFeedback(candidate, guess, fb) ==
  \A i \in 1..5 :
    /\ fb[i] = "hit" => At(candidate, i) = At(guess, i)
    /\ fb[i] = "present" => /\ At(candidate, i) # At(guess, i)
                            /\ Includes(candidate, At(guess, i))
    /\ fb[i] = "miss" => ~Includes(candidate, At(guess, i))

\* the presents loop of calculateScore, from guess position i on
RECURSIVE countPresents(_, _, _, _, _)
countPresents(i, candidateArr, guessArr, usedPositions, presents) ==
  IF i > 5 THEN presents
  ELSE IF At(candidateArr, i) = At(guessArr, i)
  THEN countPresents(i + 1, candidateArr, guessArr, usedPositions, presents)
  ELSE LET J == {j \in 1..5 : i # j /\ j \notin usedPositions
                               /\ At(candidateArr, j) = At(guessArr, i)}
       IN  IF J = {} THEN countPresents(i + 1, candidateArr, guessArr, usedPositions, presents)
           ELSE countPresents(i + 1, candidateArr, guessArr,
                              usedPositions \cup {Min(J)}, presents + 1)

\* CheatingWordleGame.calculateScore
calculateScore(candidate, guess) ==
  [hits     |-> Cardinality({i \in 1..5 : At(candidate, i) = At(guess, i)}),
   presents |-> countPresents(1, candidate, guess, {}, 0)]

\* CheatingWordleGame.isWorseScore
isWorseScore(score1, score2) ==
  \/ score1.hits < score2.hits
  \/ score1.hits = score2.hits /\ score1.presents < score2.presents

\* the loop of selectWorstAnswer, from candidate index k on
RECURSIVE worstFrom(_, _, _, _)
worstFrom(k, candidates, guess, worstCandidate) ==
  IF k > Len(candidates) THEN worstCandidate
  ELSE IF isWorseScore(calculateScore(candidates[k], guess),
                       calculateScore(worstCandidate, guess))
       THEN worstFrom(k + 1, candidates, guess, candidates[k])
       ELSE worstFrom(k + 1, candidates, guess, worstCandidate)

\* a selector that picks among the candidates of the worst score the one
\* Math.random points at
selectWorstAnswerAtRandom(candidates, guess) ==
  IF Len(candidates) = 0 THEN Null
  ELSE LET first == worstFrom(1, candidates, guess, candidates[1])
           ties == SelectSeq(candidates,
                             LAMBDA c : calculateScore(c, guess) = calculateScore(first, guess))
       IN  ties[((twin.random - 1) % Len(ties)) + 1]

\* CheatingWordleGame.selectWorstAnswer, with this.candidates as first argument
selectWorstAnswer(candidates, guess) ==
  IF Len(candidates) = 0 THEN Null
  ELSE worstFrom(1, candidates, guess, candidates[1])

\* CheatingWordleGame.eliminateCandidates: the new value of this.candidates
eliminateCandidates(candidates, guess, fb) ==
  SelectSeq(candidates, LAMBDA c : matchesFeedback(c, guess, fb))

\* CheatingWordleGame.makeGuess past the status check: the session after the call and
\* the value returned;
\* scoring against a null currentAnswer throws a TypeError after the assignment
CheatingWordleGame_makeGuessInProgress(g, guess) ==
  IF ~validateGuess(guess).valid
  THEN [game |-> g, threw |-> FALSE,
        result |-> [valid |-> FALSE, reason |-> validateGuess(guess).reason]]
  ELSE LET currentAnswer == selectWorstAnswer(g.candidates, guess)
       IN  IF currentAnswer = Null
           THEN [game |-> [g EXCEPT !.currentAnswer = Null], threw |-> TRUE,
                 result |-> Undefined]
           ELSE
       LET fb == cheatingScoreGuess(guess, currentAnswer)
           candidates == eliminateCandidates(g.candidates, guess, fb)
           guesses == Append(g.guesses, [guess |-> toUpperCase(guess), feedback |-> fb])
           status == statusAfter(g, guess, currentAnswer, Len(guesses))
       IN  [game |-> [g EXCEPT !.currentAnswer = currentAnswer, !.candidates = candidates,
                                !.guesses = guesses, !.status = status],
            threw |-> FALSE,
            result |-> [valid      |-> TRUE,
                        feedback   |-> fb,
                        guesses    |-> guesses,
                        status     |-> status,
                        roundsLeft |-> g.maxRounds - Len(guesses),
                        answer     |-> IF status # "IN_PROGRESS" THEN currentAnswer ELSE Undefined,
                        candidatesCount |-> Len(candidates),
                        remainingCandidates |->
                          IF status # "IN_PROGRESS" THEN candidates ELSE UndefinedList]]

\* CheatingWordleGame.makeGuess
CheatingWordleGame_makeGuess(g, guess) ==
  IF g.status # "IN_PROGRESS"
  THEN [game |-> g, threw |-> FALSE,
        result |-> [valid |-> FALSE, reason |-> "Game is over", status |-> g.status]]
  ELSE CheatingWordleGame_makeGuessInProgress(g, guess)

\* a getState that shows the answer and the candidates in every status
CheatingWordleGame_getStateRevealing(g) ==
  [guesses    |-> g.guesses,
   status     |-> g.status,
   roundsLeft |-> g.maxRounds - Len(g.guesses),
   answer     |-> g.currentAnswer,
   candidatesCount |-> Len(g.candidates),
   remainingCandidates |-> g.candidates]

\* CheatingWordleGame.getState
CheatingWordleGame_getState(g) ==
  [guesses    |-> g.guesses,
   status     |-> g.status,
   roundsLeft |-> g.maxRounds - Len(g.guesses),
   answer     |-> IF g.status # "IN_PROGRESS" THEN g.currentAnswer ELSE Undefined,
   candidatesCount |-> Len(g.candidates),
   remainingCandidates |-> IF g.status # "IN_PROGRESS" THEN g.candidates ELSE UndefinedList]

\* the Error thrown by the default branch of the switch of createGame, in the place
\* of a session
UnknownGameMode(mode) == [kind |-> "threw", error |-> "Unknown game mode: " \o mode]

\* GameFactory.createGame: a session, or the Error thrown for a mode it does not know
createGame(mode, wordList, maxRounds, answer, rnd) ==
  IF mode = "normal" THEN WordleGame(wordList, maxRounds, answer, rnd)
  ELSE IF mode = "cheating" THEN CheatingWordleGame(wordList, maxRounds)
  ELSE UnknownGameMode(mode)

----------------------------------------------------------------------------
(* Words, word lists and raw guesses used as inputs *)

SOUTH == <<"S","O","U","T","H">>
BOUND == <<"B","O","U","N","D">>
YOUTH == <<"Y","O","U","T","H">>
LOUIS == <<"L","O","U","I","S">>
OLIVE == <<"O","L","I","V","E">>
WORLD == <<"W","O","R","L","D">>
HELLO == <<"H","E","L","L","O">>
PANIC == <<"P","A","N","I","C">>
CRAZY == <<"C","R","A","Z","Y">>
BUGGY == <<"B","U","G","G","Y">>
FRESH == <<"F","R","E","S","H">>
FANCY == <<"F","A","N","C","Y">>
QUITE == <<"Q","U","I","T","E">>
SHOUT == <<"S","H","O","U","T">>

\* the word list of the session tests of game.js
GameTestList == <<SOUTH, BOUND, YOUTH, LOUIS, OLIVE>>
\* the word list of the tests of cheatingGame.js
CheatingTestList == <<HELLO, WORLD, QUITE, FANCY, FRESH, PANIC, CRAZY, BUGGY>>
\* a short word list handed to the constructor of an adversarial session: the first
\* four words of the word list of the tests of cheatingGame.js
FourWordList == <<HELLO, WORLD, QUITE, FANCY>>
\* the sessions the model creates: mode and word list
Sessions ==
  { <<"normal", GameTestList>>, <<"cheating", GameTestList>>,
    <<"cheating", FourWordList>>, <<"cheating", CheatingTestList>> }

\* raw guesses a client can send: list words, made-up words, lower case,
\* wrong length, wrong characters
RawGuesses ==
  { SOUTH, LOUIS, HELLO, FANCY,
    <<"T","O","O","T","H">>,
    <<"T","U","N","I","C">>,
    <<"A","T","O","L","L">>,
    <<"s","o","u","t","h">>,
    <<"a","b","c">>,
    <<"S","O","U","T","H","S">>,
    <<"1","2","3","4","5">> }

\* largest maxRounds of a session of the model (the source's default is 6);
\* the request handler passes the maxRounds of the request body as it comes,
\* so the smallest is 0
MaxRoundsBound == 2

----------------------------------------------------------------------------
(* The session state machine: one session, any sequence of calls *)

NoCall == [op |-> "none", guess |-> << >>, threw |-> FALSE]

\* no second session
NoTwin == [kind |-> "none"]

\* the socket server before any event: no room, no sweep armed
NoError == ""

EmptyMap == [k \in {} |-> Null]

RoomIdle == rooms = EmptyMap /\ sweepTimer = << >>

roomVars == <<rooms, sweepTimer>>

HarnessIdle ==
  /\ pc = "idle" /\ inGuess = << >> /\ inAnswer = << >> /\ inCands = << >>
  /\ feedback = Undefined /\ worst = Undefined

Init ==
  /\ HarnessIdle
  /\ RoomIdle
  /\ \E s \in Sessions, mr \in 0..MaxRoundsBound :
       \E rnd \in 1..Len(s[2]) : game = createGame(s[1], s[2], mr, Null, rnd)
  /\ prev = game
  /\ call = NoCall
  /\ result = Undefined
  /\ twin = NoTwin

harness == <<pc, inGuess, inAnswer, inCands, feedback, worst>>

\* a client calls makeGuess on a fixed-answer session
NormalMakeGuess(raw) ==
  /\ game.kind = "normal"
  /\ LET r == WordleGame_makeGuess(game, raw)
     IN  /\ game' = r.game
         /\ result' = r.result
         /\ call' = [op |-> "makeGuess", guess |-> raw, threw |-> r.threw]
  /\ prev' = game
  /\ UNCHANGED <<twin, harness, roomVars>>

\* a client calls makeGuess on an adversarial session
CheatingMakeGuess(raw) ==
  /\ game.kind = "cheating"
  /\ LET r == CheatingWordleGame_makeGuess(game, raw)
     IN  /\ game' = r.game
         /\ result' = r.result
         /\ call' = [op |-> "makeGuess", guess |-> raw, threw |-> r.threw]
  /\ prev' = game
  /\ UNCHANGED <<twin, harness, roomVars>>

\* a client calls getState on a fixed-answer session
NormalGetState ==
  /\ game.kind = "normal"
  /\ result' = WordleGame_getState(game)
  /\ call' = [op |-> "getState", guess |-> << >>, threw |-> FALSE]
  /\ prev' = game
  /\ UNCHANGED <<game, twin, harness, roomVars>>

\* a client calls getState on an adversarial session
CheatingGetState ==
  /\ game.kind = "cheating"
  /\ result' = CheatingWordleGame_getState(game)
  /\ call' = [op |-> "getState", guess |-> << >>, threw |-> FALSE]
  /\ prev' = game
  /\ UNCHANGED <<game, twin, harness, roomVars>>

Next ==
  \/ \E raw \in RawGuesses : NormalMakeGuess(raw)
  \/ \E raw \in RawGuesses : CheatingMakeGuess(raw)
  \/ NormalGetState
  \/ CheatingGetState

Spec == Init /\ [][Next]_vars

----------------------------------------------------------------------------
(* The example flow of the README: one adversarial session on the README's  *)
(* word list, with the default number of guesses.                           *)

\* the word list the example flow starts from
ReadmeWordList == <<HELLO, WORLD, QUITE, FANCY, FRESH, PANIC, CRAZY, BUGGY>>

\* the guesses of the example flow, and two of the words it ends with
ExampleGuesses == {HELLO, WORLD, CRAZY, PANIC, BUGGY}

\* constructor(wordList, maxRounds = 6)
DefaultMaxRounds == 6

ExampleInit ==
  /\ HarnessIdle
  /\ RoomIdle
  /\ game = CheatingWordleGame(ReadmeWordList, DefaultMaxRounds)
  /\ prev = game
  /\ call = NoCall
  /\ result = Undefined
  /\ twin = NoTwin

ExampleNext ==
  \/ \E raw \in ExampleGuesses : CheatingMakeGuess(raw)
  \/ CheatingGetState

ExampleSpec == ExampleInit /\ [][ExampleNext]_vars

----------------------------------------------------------------------------
(* Two adversarial sessions of one server process: created by the factory   *)
(* with the same word list and maxRounds and given the same calls, the      *)
(* second session each call after the first has answered it. The process    *)
(* draws from Math.random between the calls (a session id for every         *)
(* /api/start), so the two calls are made at different states of the        *)
(* generator: twin.random is what Math.random returns to a call made now,   *)
(* twin.seen what it returned when the first session took the call that     *)
(* twin.owed holds or held.                                                 *)

\* the values of Math.random, as the index they select
TwinDraws == {1, 2}

TwinInit ==
  /\ HarnessIdle
  /\ RoomIdle
  /\ \E s \in Sessions, mr \in 0..MaxRoundsBound :
       /\ s[1] = "cheating"
       /\ \E rnd, rnd2 \in 1..Len(s[2]), d \in TwinDraws :
            /\ game = createGame(s[1], s[2], mr, Null, rnd)
            /\ twin = [game   |-> createGame(s[1], s[2], mr, Null, rnd2),
                       result |-> Undefined,
                       threw  |-> FALSE,
                       owed   |-> NoCall,
                       seen   |-> d,
                       random |-> d]
  /\ prev = game
  /\ call = NoCall
  /\ result = Undefined

\* a client calls makeGuess on the first session; the generator moves on
TwinMakeGuess(raw) ==
  /\ twin.owed = NoCall
  /\ LET r == CheatingWordleGame_makeGuess(game, raw)
     IN  /\ game' = r.game
         /\ result' = r.result
         /\ call' = [op |-> "makeGuess", guess |-> raw, threw |-> r.threw]
  /\ \E d \in TwinDraws :
       twin' = [twin EXCEPT !.owed = [op |-> "makeGuess", guess |-> raw, threw |-> FALSE],
                            !.seen = twin.random,
                            !.random = d]
  /\ prev' = game
  /\ UNCHANGED <<harness, roomVars>>

\* a client calls getState on the first session; the generator moves on
TwinGetState ==
  /\ twin.owed = NoCall
  /\ result' = CheatingWordleGame_getState(game)
  /\ call' = [op |-> "getState", guess |-> << >>, threw |-> FALSE]
  /\ \E d \in TwinDraws :
       twin' = [twin EXCEPT !.owed = [op |-> "getState", guess |-> << >>, threw |-> FALSE],
                            !.seen = twin.random,
                            !.random = d]
  /\ prev' = game
  /\ UNCHANGED <<game, harness, roomVars>>

\* the second session is given the makeGuess the first has answered
TwinFollowsMakeGuess ==
  /\ twin.owed.op = "makeGuess"
  /\ LET t == CheatingWordleGame_makeGuess(twin.game, twin.owed.guess)
     IN  twin' = [twin EXCEPT !.game = t.game, !.result = t.result, !.threw = t.threw,
                              !.owed = NoCall]
  /\ UNCHANGED <<game, prev, call, result, harness, roomVars>>

\* the second session is given the getState the first has answered
TwinFollowsGetState ==
  /\ twin.owed.op = "getState"
  /\ twin' = [twin EXCEPT !.result = CheatingWordleGame_getState(twin.game),
                          !.threw = FALSE,
                          !.owed = NoCall]
  /\ UNCHANGED <<game, prev, call, result, harness, roomVars>>

TwinNext ==
  \/ \E raw \in RawGuesses : TwinMakeGuess(raw)
  \/ TwinGetState
  \/ TwinFollowsMakeGuess
  \/ TwinFollowsGetState

TwinSpec == TwinInit /\ [][TwinNext]_vars

----------------------------------------------------------------------------
(* The scorer applied to every pair of a bounded set of words *)

\* number of letters of the alphabet the scored words are built from
ScoreLetterCount == 2

ScoreLetters == {UpperLetters[k] : k \in 1..ScoreLetterCount}

ScoreWords == [1..5 -> ScoreLetters] \cup {SOUTH, SHOUT, LOUIS}

NoGame == [kind |-> "none"]

SessionIdle ==
  game = NoGame /\ prev = NoGame /\ call = NoCall /\ result = Undefined /\ twin = NoTwin

session == <<game, prev, call, result, twin>>

ScoreInit ==
  /\ pc = "start"
  /\ inGuess \in ScoreWords
  /\ inAnswer \in ScoreWords
  /\ inCands = << >>
  /\ feedback = Undefined
  /\ worst = Undefined
  /\ SessionIdle
  /\ RoomIdle

\* WordleGame.scoreGuess is called with this.answer = inAnswer
ApplyScoreGuess ==
  /\ pc = "start"
  /\ feedback' = scoreGuess(inGuess, inAnswer)
  /\ pc' = "scored"
  /\ UNCHANGED <<inGuess, inAnswer, inCands, worst, session, roomVars>>

\* CheatingWordleGame.scoreGuess is called with this.currentAnswer = inAnswer
ApplyCheatingScoreGuess ==
  /\ pc = "start"
  /\ feedback' = cheatingScoreGuess(inGuess, inAnswer)
  /\ pc' = "scoredCheating"
  /\ UNCHANGED <<inGuess, inAnswer, inCands, worst, session, roomVars>>

ScoreNext == ApplyScoreGuess \/ ApplyCheatingScoreGuess

ScoreSpec == ScoreInit /\ [][ScoreNext]_vars

Scored == pc \in {"scored", "scoredCheating"}

CountOf(S) == Cardinality(S)

\* C1: the number of hits equals the number of positions where guess and
\* answer hold the same letter, and for every letter the guess positions
\* holding it that are marked hit or present are at most as many as the
\* occurrences of that letter in the answer.
C1_NoOverCredit ==
  Scored =>
    /\ CountOf({i \in 1..5 : feedback[i] = "hit"})
         = CountOf({i \in 1..5 : inGuess[i] = inAnswer[i]})
    /\ \A x \in AZ :
         CountOf({i \in 1..5 : inGuess[i] = x /\ feedback[i] \in {"hit", "present"}})
           <= CountOf({j \in 1..5 : inAnswer[j] = x})

\* a guess holds a letter twice, the answer once: one of the two is credited
C1_Witness ==
  /\ pc = "scored"
  /\ \E i, k \in 1..5 :
       /\ i < k /\ inGuess[i] = inGuess[k]
       /\ feedback[i] = "present" /\ feedback[k] = "miss"
       /\ CountOf({j \in 1..5 : inAnswer[j] = inGuess[i]}) = 1

\* the non-hit positions of a word pair holding letter x
NonHitGuess(guess, answer, x) == {k \in 1..5 : guess[k] = x /\ guess[k] # answer[k]}
NonHitAnswer(guess, answer, x) == {j \in 1..5 : answer[j] = x /\ guess[j] # answer[j]}

\* the consume-once feedback stated by counting: a non-hit guess position is
\* present iff fewer earlier non-hit guess positions hold its letter than
\* there are non-hit answer positions holding it
ConsumeOnce(guess, answer) ==
  [i \in 1..5 |->
     IF guess[i] = answer[i] THEN "hit"
     ELSE IF CountOf({k \in NonHitGuess(guess, answer, guess[i]) : k < i})
               < CountOf(NonHitAnswer(guess, answer, guess[i]))
          THEN "present" ELSE "miss"]

\* C2: scoreGuess equals the two-pass consume-once feedback for every pair;
\* answer SOUTH gives [hit, present, present, present, present] for SHOUT and
\* [miss, hit, hit, miss, present] for LOUIS.
C2_TwoPassReference ==
  Scored =>
    /\ feedback = ConsumeOnce(inGuess, inAnswer)
    /\ (inAnswer = SOUTH /\ inGuess = SHOUT)
         => feedback = <<"hit", "present", "present", "present", "present">>
    /\ (inAnswer = SOUTH /\ inGuess = LOUIS)
         => feedback = <<"miss", "hit", "hit", "miss", "present">>

\* SHOUT has been scored against SOUTH
C2_Witness ==
  /\ pc = "scored" /\ inAnswer = SOUTH /\ inGuess = SHOUT
  /\ feedback = <<"hit", "present", "present", "present", "present">>

----------------------------------------------------------------------------
(* selectWorstAnswer applied to candidate lists in every order *)

\* largest number of candidates of a list handed to selectWorstAnswer
MaxCandidates == 4

SelectPool == {HELLO, WORLD, QUITE, FANCY, PANIC, CRAZY, SOUTH}

\* the guesses handed to selectWorstAnswer: makeGuess hands it the raw guess
\* it has validated, in the case the client sent
SelectGuesses ==
  {HELLO, CRAZY, <<"Z","Z","Z","Z","Z">>, <<"A","A","L","L","Y">>,
   <<"L","S","Z","L","H">>, <<"h","e","l","l","o">>}

\* the lists of distinct words of the pool, in every order
CandidateLists ==
  UNION { {c \in [1..n -> SelectPool] : \A i, j \in 1..n : i # j => c[i] # c[j]}
          : n \in 1..MaxCandidates }

SelectInit ==
  /\ pc = "start"
  /\ inGuess \in SelectGuesses
  /\ inAnswer = << >>
  /\ inCands \in CandidateLists
  /\ feedback = Undefined
  /\ worst = Undefined
  /\ SessionIdle
  /\ RoomIdle

\* selectWorstAnswer is called with this.candidates = inCands
ApplySelectWorstAnswer ==
  /\ pc = "start"
  /\ worst' = selectWorstAnswer(inCands, inGuess)
  /\ pc' = "selected"
  /\ UNCHANGED <<inGuess, inAnswer, inCands, feedback, session, roomVars>>

SelectNext == ApplySelectWorstAnswer

SelectSpec == SelectInit /\ [][SelectNext]_vars

\* score s1 is strictly worse than s2: fewer hits, or equal hits and fewer presents
StrictlyWorse(s1, s2) ==
  s1.hits < s2.hits \/ (s1.hits = s2.hits /\ s1.presents < s2.presents)

\* the (hits, presents) score of a candidate against a guess: the numbers of
\* hits and of presents of the feedback the guess gets against the candidate
FeedbackScore(candidate, guess) ==
  LET fb == cheatingScoreGuess(guess, candidate)
  IN  [hits     |-> Cardinality({i \in 1..5 : fb[i] = "hit"}),
       presents |-> Cardinality({i \in 1..5 : fb[i] = "present"})]

\* C3: for every non-empty candidate list and every valid guess,
\* selectWorstAnswer returns a member of the candidate set than which no
\* candidate has a strictly worse (hits, presents) score against the guess;
\* for [HELLO, WORLD, QUITE, FANCY] and guess HELLO it does not return HELLO
\* and the feedback of HELLO against the returned word has no hit.
C3_WorstSelected ==
  (pc = "selected" /\ validateGuess(inGuess).valid) =>
    /\ \E k \in 1..Len(inCands) : inCands[k] = worst
    /\ \A k \in 1..Len(inCands) :
         ~StrictlyWorse(FeedbackScore(inCands[k], inGuess), FeedbackScore(worst, inGuess))
    /\ (inCands = FourWordList /\ inGuess = HELLO) =>
         /\ worst # HELLO
         /\ \A i \in 1..5 : cheatingScoreGuess(HELLO, worst)[i] # "hit"

\* the same with the score selectWorstAnswer ranks by: calculateScore of the
\* candidate and the guess as sent
WorstByCalculateScore ==
  (pc = "selected" /\ validateGuess(inGuess).valid) =>
    /\ \E k \in 1..Len(inCands) : inCands[k] = worst
    /\ \A k \in 1..Len(inCands) :
         ~StrictlyWorse(calculateScore(inCands[k], inGuess), calculateScore(worst, inGuess))
    /\ (inCands = FourWordList /\ inGuess = HELLO) =>
         /\ worst # HELLO
         /\ \A i \in 1..5 : cheatingScoreGuess(HELLO, worst)[i] # "hit"

\* the worst word of [HELLO, WORLD, QUITE, FANCY] for guess HELLO has been selected
WorstOfFourSelected ==
  /\ pc = "selected" /\ inCands = FourWordList /\ inGuess = HELLO
  /\ worst = FANCY

\* SOUTH has been selected for LSZLH from [SOUTH, WORLD]: its feedback has a
\* hit and a present, that of WORLD a hit only
PresentAgainstHitSelected ==
  /\ pc = "selected" /\ inCands = <<SOUTH, WORLD>>
  /\ inGuess = <<"L","S","Z","L","H">>
  /\ worst = SOUTH
  /\ FeedbackScore(SOUTH, inGuess) = [hits |-> 1, presents |-> 1]
  /\ FeedbackScore(WORLD, inGuess) = [hits |-> 1, presents |-> 0]
  /\ calculateScore(WORLD, inGuess) = calculateScore(SOUTH, inGuess)

\* HELLO has been selected for the guess hello from [HELLO, WORLD, QUITE, FANCY]
LowerCaseGuessSelectsFiveHits ==
  /\ pc = "selected" /\ inCands = FourWordList
  /\ inGuess = <<"h","e","l","l","o">>
  /\ worst = HELLO
  /\ FeedbackScore(HELLO, inGuess).hits = 5
  /\ \A k \in 1..Len(inCands) :
       calculateScore(inCands[k], inGuess) = [hits |-> 0, presents |-> 0]

\* the position of a letter in the alphabet
LetterRank(c) == CHOOSE k \in 1..Len(UpperLetters) : UpperLetters[k] = c

\* word a comes before word b in ascending alphabetical order
RECURSIVE AlphaBefore(_, _)
AlphaBefore(a, b) ==
  IF a = << >> THEN b # << >>
  ELSE IF b = << >> THEN FALSE
  ELSE IF Head(a) # Head(b) THEN LetterRank(Head(a)) < LetterRank(Head(b))
  ELSE AlphaBefore(Tail(a), Tail(b))

\* C6: among the candidates that share the worst score, selectWorstAnswer
\* returns the first in ascending alphabetical order, whatever the order of
\* the list.
C6_AlphabeticalTieBreak ==
  pc = "selected" =>
    \A k \in 1..Len(inCands) :
      calculateScore(inCands[k], inGuess) = calculateScore(worst, inGuess)
        => ~AlphaBefore(inCands[k], worst)

----------------------------------------------------------------------------
(* Properties of the session state machine *)

Terminal == {"WIN", "LOSE"}

\* the last call was a makeGuess that returned valid: true
Accepted == call.op = "makeGuess" /\ ~call.threw /\ result.valid

\* the last call was a makeGuess that returned valid: false
Rejected == call.op = "makeGuess" /\ ~call.threw /\ ~result.valid

\* the answer a guess is compared with
WorkingAnswer(g) == IF g.kind = "normal" THEN g.answer ELSE g.currentAnswer

\* C4: in adversarial mode the candidate set still contains the selected
\* answer after every accepted guess, is never empty after accepted guesses,
\* and a makeGuess always finds an answer to select (it does not throw).
C4_SelectedAnswerRetained ==
  game.kind = "cheating" =>
    /\ Accepted => Includes(game.candidates, game.currentAnswer)
    /\ Len(game.candidates) > 0
    /\ ~call.threw

\* C5: every word still in the candidate set reproduces, for each earlier
\* guess scored against it, the feedback that was shown for that guess.
C5_NeverContradicts ==
  game.kind = "cheating" =>
    \A c \in 1..Len(game.candidates), k \in 1..Len(game.guesses) :
      cheatingScoreGuess(game.guesses[k].guess, game.candidates[c]) = game.guesses[k].feedback

\* C7: after an accepted guess the status is WIN iff the normalized guess
\* equals the working answer, else LOSE iff the recorded guesses have reached
\* maxRounds, else IN_PROGRESS, and roundsLeft is maxRounds minus the number
\* of recorded guesses.
C7_StatusAfterGuess ==
  Accepted =>
    LET won == toUpperCase(call.guess) = WorkingAnswer(game)
        exhausted == Len(game.guesses) >= game.maxRounds
    IN  /\ game.status = "WIN" <=> won
        /\ game.status = "LOSE" <=> (~won /\ exhausted)
        /\ game.status = "IN_PROGRESS" <=> (~won /\ ~exhausted)
        /\ result.status = game.status
        /\ result.roundsLeft = game.maxRounds - Len(game.guesses)

\* the last allowed guess of a session of two rounds wins it
C7_Witness ==
  /\ Accepted /\ game.status = "WIN"
  /\ game.maxRounds = 2 /\ Len(game.guesses) = 2 /\ result.roundsLeft = 0

\* C8: once the status is WIN or LOSE every makeGuess is rejected with
\* 'Game is over' and leaves the session unchanged; the guess list never
\* exceeds maxRounds and changes only by appending the entry of an accepted
\* guess.
C8_TerminalOnce ==
  [][ /\ (game.status \in Terminal /\ call'.op = "makeGuess") =>
           /\ ~call'.threw /\ ~result'.valid /\ result'.reason = "Game is over"
           /\ game' = game
      /\ game.status \in Terminal => game'.status = game.status
      /\ Len(game'.guesses) <= game'.maxRounds
      /\ \/ game'.guesses = game.guesses
         \/ /\ call'.op = "makeGuess" /\ ~call'.threw /\ result'.valid
            /\ game.status = "IN_PROGRESS"
            /\ game'.guesses = Append(game.guesses,
                                      [guess |-> toUpperCase(call'.guess),
                                       feedback |-> result'.feedback])
    ]_vars

\* the same for the sessions whose maxRounds is at least 1
TerminalOnceOfPositiveMaxRounds ==
  [][ /\ (game.status \in Terminal /\ call'.op = "makeGuess") =>
           /\ ~call'.threw /\ ~result'.valid /\ result'.reason = "Game is over"
           /\ game' = game
      /\ game.status \in Terminal => game'.status = game.status
      /\ game'.maxRounds >= 1 => Len(game'.guesses) <= game'.maxRounds
      /\ \/ game'.guesses = game.guesses
         \/ /\ call'.op = "makeGuess" /\ ~call'.threw /\ result'.valid
            /\ game.status = "IN_PROGRESS"
            /\ game'.guesses = Append(game.guesses,
                                      [guess |-> toUpperCase(call'.guess),
                                       feedback |-> result'.feedback])
    ]_vars

\* a session started with maxRounds 0 has accepted and recorded a guess
ZeroRoundsGuessRecorded ==
  /\ Accepted /\ game.maxRounds = 0
  /\ prev.guesses = << >> /\ Len(game.guesses) = 1
  /\ game.status \in Terminal

\* a well-formed guess was made on a finished session and rejected
GuessAfterGameOver ==
  /\ call.op = "makeGuess" /\ prev.status \in Terminal
  /\ validateGuess(call.guess).valid
  /\ ~result.valid /\ result.reason = "Game is over"
  /\ game = prev

\* C9: on a session in progress makeGuess accepts a raw guess iff its upper
\* case has exactly 5 characters all in A-Z; otherwise it is rejected with
\* the reason for wrong length or for wrong characters and the session is
\* unchanged.
C9_AcceptIffWellFormed ==
  (call.op = "makeGuess" /\ prev.status = "IN_PROGRESS") =>
    LET word == toUpperCase(call.guess)
        wellFormed == Len(word) = 5 /\ \A k \in 1..Len(word) : word[k] \in AZ
    IN  /\ wellFormed <=> (~call.threw /\ result.valid)
        /\ ~wellFormed =>
             /\ Rejected
             /\ result.reason = IF Len(word) # 5 THEN "Guess must be 5 letters"
                                ELSE "Guess must be A-Z only"
             /\ game = prev

\* the value r shows the answer or the remaining candidates
Exposes(r) ==
  \/ "answer" \in DOMAIN r /\ r.answer # Undefined
  \/ "remainingCandidates" \in DOMAIN r /\ r.remainingCandidates # UndefinedList

\* C10: the value returned by makeGuess or getState shows the answer or the
\* remaining candidates only when the session status is WIN or LOSE, and the
\* answer shown is the working answer.
C10_AnswerOnlyWhenTerminal ==
  (call.op \in {"makeGuess", "getState"} /\ ~call.threw) =>
    /\ Exposes(result) => game.status \in Terminal
    /\ game.status = "IN_PROGRESS" => ~Exposes(result)
    /\ Exposes(result) => result.answer = WorkingAnswer(game)

\* getState of a lost adversarial session shows the answer and the candidates
C10_Witness ==
  /\ call.op = "getState" /\ game.kind = "cheating" /\ game.status = "LOSE"
  /\ result.answer = game.currentAnswer
  /\ result.remainingCandidates = game.candidates

----------------------------------------------------------------------------
(* The room: MultiplayerGame (multiplayerGame.js)                          *)
(*                                                                         *)
(* A Map is modelled by what the code reads from it: players, whose        *)
(* insertion order the code iterates, is a sequence of player records;     *)
(* socketToPlayer and playerGames, read by key only, are functions.        *)
(* lastSeen is kept as the age class the player sweep compares: "recent"   *)
(* when written, "old" once more than the sweep timeout has passed.        *)
(* lastActivity is kept the same way, for the timeout of the room sweep.   *)
(* The two clocks are written apart: seenLater holds the players whose     *)
(* lastSeen was written after lastActivity, by updatePlayerSocketId.       *)

HAPPY == <<"H","A","P","P","Y">>
SMILE == <<"S","M","I","L","E">>

\* this.wordList of a room
RoomWordList ==
  <<HELLO, WORLD, QUITE, FANCY, FRESH, PANIC, CRAZY, <<"v","G","Y">>, HAPPY, SMILE>>

\* the maxRounds every createGame call of a room passes
SessionRounds == 6

\* the round at which endRound ends the game
RoundCap == 5

\* roundsLeft of a player in broadcastGameState: the session objects have no
\* roundsLeft property, so the value is 6 less the length of the guess list of the
\* player, and 6 for a player without session
broadcastRoundsLeft(room, player) ==
  IF player.id \in DOMAIN room.playerGames THEN 6 - Len(player.guesses) ELSE 6

MapSet(m, k, v) == [x \in (DOMAIN m) \cup {k} |-> IF x = k THEN v ELSE m[x]]

MapDelete(m, k) == [x \in (DOMAIN m) \ {k} |-> m[x]]

\* Map.has / Map.get on this.players
HasPlayer(players, pid) == \E k \in 1..Len(players) : players[k].id = pid

IndexOf(players, pid) == CHOOSE k \in 1..Len(players) : players[k].id = pid

GetPlayer(players, pid) == players[IndexOf(players, pid)]

\* Map.delete on this.players
DeletePlayer(players, pid) == SelectSeq(players, LAMBDA p : p.id # pid)

\* MultiplayerGame.constructor; createdAt is the reading of the clock, kept as the
\* position of the room in the order in which the rooms were created
MultiplayerGame(roomId, maxPlayers, gameMode, createdAt) ==
  [roomId         |-> roomId,
   maxPlayers     |-> maxPlayers,
   gameMode       |-> gameMode,
   players        |-> << >>,
   socketToPlayer |-> EmptyMap,
   gameState      |-> "WAITING",
   currentRound   |-> 0,
   sharedGame     |-> NoGame,     \* null until startGame
   playerGames    |-> EmptyMap,
   wordList       |-> RoomWordList,
   createdAt      |-> createdAt,
   lastActivity   |-> "recent",
   seenLater      |-> {}]

\* an addPlayer without the check of maxPlayers
addPlayerNoLimit(room, socketId, playerName, persistentPlayerId) ==
  IF room.gameState # "WAITING"
  THEN [room |-> room, error |-> "Game already in progress"]
  ELSE [room |-> [room EXCEPT
                    !.players = Append(@, [id                |-> persistentPlayerId,
                                           name              |-> playerName,
                                           score             |-> 0,
                                           guesses           |-> << >>,
                                           status            |-> "READY",
                                           isHost            |-> Len(room.players) = 0,
                                           readyForNextRound |-> FALSE,
                                           lastSeen          |-> "recent"]),
                    !.socketToPlayer = MapSet(@, socketId, persistentPlayerId),
                    !.lastActivity = "recent", !.seenLater = {}],
        error |-> NoError]

\* MultiplayerGame.addPlayer; persistentPlayerId is the identifier generated from the
\* clock and Math.random
addPlayer(room, socketId, playerName, persistentPlayerId) ==
  IF Len(room.players) >= room.maxPlayers
  THEN [room |-> room, error |-> "Room is full"]
  ELSE IF room.gameState # "WAITING"
  THEN [room |-> room, error |-> "Game already in progress"]
  ELSE [room |-> [room EXCEPT
                    !.players = Append(@, [id                |-> persistentPlayerId,
                                           name              |-> playerName,
                                           score             |-> 0,
                                           guesses           |-> << >>,
                                           status            |-> "READY",
                                           isHost            |-> Len(room.players) = 0,
                                           readyForNextRound |-> FALSE,
                                           lastSeen          |-> "recent"]),
                    !.socketToPlayer = MapSet(@, socketId, persistentPlayerId),
                    !.lastActivity = "recent", !.seenLater = {}],
        error |-> NoError]

\* the first of the eligible entries of players gets isHost = true; eligible is the
\* set of their indices
promoteFirst(players, eligible) ==
  IF eligible # {} THEN [players EXCEPT ![Min(eligible)].isHost = TRUE]
  ELSE players

\* MultiplayerGame.removePlayer
removePlayer(room, socketId) ==
  IF socketId \notin DOMAIN room.socketToPlayer THEN room
  ELSE LET persistentPlayerId == room.socketToPlayer[socketId]
       IN  IF ~HasPlayer(room.players, persistentPlayerId) THEN room
           ELSE LET i == IndexOf(room.players, persistentPlayerId)
                    marked == [room.players EXCEPT ![i].status = "DISCONNECTED",
                                                   ![i].lastSeen = "recent"]
                IN  [room EXCEPT
                       !.socketToPlayer = MapDelete(@, socketId),
                       !.lastActivity = "recent", !.seenLater = {},
                       !.players =
                         IF marked[i].isHost /\ room.gameState = "PLAYING"
                         THEN promoteFirst(marked, {k \in 1..Len(marked) :
                                                     marked[k].status # "DISCONNECTED"})
                         ELSE marked]

\* the session created for one player: GameFactory.createGame followed by the
\* assignment of the shared answer, which overwrites the session's own draw
\* (a TypeError when there is no shared game to read the answer of)
individualGame(room, sharedGame, rnd) ==
  LET created == createGame(room.gameMode, room.wordList, SessionRounds, Null, rnd)
  IN  IF created.kind = "threw" THEN created
      ELSE IF sharedGame = NoGame THEN [kind |-> "threw", error |-> "TypeError"]
      ELSE [created EXCEPT !.answer = sharedGame.answer]

\* the loop of startGame and startNewRound over this.players
resetPlayers(room, sharedGame, rnd, reset) ==
  LET active == {room.players[k].id : k \in {j \in 1..Len(room.players) :
                                           room.players[j].status # "DISCONNECTED"}}
  IN  [room EXCEPT
         !.sharedGame = sharedGame,
         !.playerGames = [pid \in active |-> individualGame(room, sharedGame, rnd)],
         !.players = [k \in 1..Len(room.players) |->
                        IF room.players[k].status # "DISCONNECTED"
                        THEN [f \in DOMAIN room.players[k] |->
                                IF f \in DOMAIN reset THEN reset[f]
                                ELSE room.players[k][f]]
                        ELSE room.players[k]]]

\* MultiplayerGame.startGame; rnd is the draw of the shared game.  The room after the
\* call and the message of the Error thrown (NoError when the call returns): the
\* state and the round are assigned before the factory is called.
startGame(room, rnd) ==
  IF Len(room.players) < 2
  THEN [room |-> room, error |-> "Need at least 2 players to start"]
  ELSE IF room.gameState # "WAITING"
  THEN [room |-> room, error |-> "Game already in progress"]
  ELSE LET sharedGame == createGame(room.gameMode, room.wordList, SessionRounds, Null, rnd)
           started == [room EXCEPT !.gameState = "PLAYING", !.currentRound = 1]
       IN  IF sharedGame.kind = "threw"
           THEN [room |-> started, error |-> sharedGame.error]
           ELSE [room |-> [resetPlayers(started, sharedGame, rnd,
                                        [guesses |-> << >>, status |-> "PLAYING",
                                         score |-> 0])
                             EXCEPT !.lastActivity = "recent", !.seenLater = {}],
                 error |-> NoError]

\* MultiplayerGame.startNewRound: the room after the call and the message of the
\* Error thrown (NoError when the call returns); the round is incremented before the
\* factory is called
startNewRound(room, rnd) ==
  LET sharedGame == createGame(room.gameMode, room.wordList, SessionRounds, Null, rnd)
      advanced == [room EXCEPT !.currentRound = @ + 1]
  IN  IF sharedGame.kind = "threw" THEN [room |-> advanced, error |-> sharedGame.error]
      ELSE [room |-> [resetPlayers(advanced, sharedGame, rnd,
                                   [guesses |-> << >>, status |-> "PLAYING",
                                    readyForNextRound |-> FALSE])
                        EXCEPT !.gameState = "PLAYING", !.lastActivity = "recent",
                               !.seenLater = {}],
            error |-> NoError]

\* players.sort((a, b) => b.score - a.score): the sort is stable, so a player
\* goes behind every player already placed whose score is not lower.
insertByScore(sorted, player) ==
  LET ahead == {k \in 1..Len(sorted) : sorted[k].score >= player.score}
      n == IF ahead = {} THEN 0 ELSE CHOOSE k \in ahead : \A j \in ahead : j <= k
  IN  SubSeq(sorted, 1, n) \o <<player>> \o SubSeq(sorted, n + 1, Len(sorted))

RECURSIVE sortByScore(_)
sortByScore(players) ==
  IF players = <<>>
  THEN <<>>
  ELSE insertByScore(sortByScore(SubSeq(players, 1, Len(players) - 1)),
                     players[Len(players)])

\* guesses.reduce((sum, g) => sum + g.guess.length, 0)
RECURSIVE totalGuesses(_)
totalGuesses(guesses) ==
  IF guesses = <<>>
  THEN 0
  ELSE Len(guesses[1].guess) + totalGuesses(Tail(guesses))

\* the ranking with the players left in the order they joined
calculateRankingsUnsorted(room) ==
  [index \in 1..Len(room.players) |->
     [rank         |-> index,
      playerId     |-> room.players[index].id,
      name         |-> room.players[index].name,
      score        |-> room.players[index].score,
      totalGuesses |-> totalGuesses(room.players[index].guesses)]]

\* calculateRankings(): the players by descending score, ranked from 1
calculateRankings(room) ==
  LET players == sortByScore(room.players)
  IN  [index \in 1..Len(players) |->
         [rank         |-> index,
          playerId     |-> players[index].id,
          name         |-> players[index].name,
          score        |-> players[index].score,
          totalGuesses |-> totalGuesses(players[index].guesses)]]

\* MultiplayerGame.endGame
endGame(room) ==
  [room EXCEPT !.gameState = "FINISHED", !.lastActivity = "recent", !.seenLater = {}]

\* an endRound that starts a new round whatever the round
endRoundNoCap(room, rnd) == startNewRound(room, rnd)

\* MultiplayerGame.endRound: the room after the call and the message of the Error
\* thrown (NoError when the call returns), as for the three operators that follow
endRound(room, rnd) ==
  IF room.currentRound >= RoundCap THEN [room |-> endGame(room), error |-> NoError]
  ELSE startNewRound(room, rnd)

\* a checkRoundEnd that ends the round at every finished session
checkRoundEndAtOnce(room, rnd) == endRound(room, rnd)

\* MultiplayerGame.checkRoundEnd
checkRoundEnd(room, rnd) ==
  IF \A k \in 1..Len(room.players) : room.players[k].status # "PLAYING"
  THEN endRound(room, rnd)
  ELSE [room |-> room, error |-> NoError]

\* MultiplayerGame.checkAllPlayersReady
checkAllPlayersReady(room, rnd) ==
  LET finishedPlayers == SelectSeq(room.players, LAMBDA p : p.status = "FINISHED")
      allReady == \A k \in 1..Len(finishedPlayers) : finishedPlayers[k].readyForNextRound
  IN  IF allReady /\ Len(finishedPlayers) > 0 THEN endRound(room, rnd)
      ELSE [room |-> room, error |-> NoError]

\* the loop that deletes every socket mapped to one player
unbind(socketToPlayer, persistentPlayerId) ==
  [s \in {x \in DOMAIN socketToPlayer : socketToPlayer[x] # persistentPlayerId}
     |-> socketToPlayer[s]]

\* MultiplayerGame.explicitlyRemovePlayer: the room after the call, the value returned
\* and the message of the Error thrown (NoError when the call returns)
explicitlyRemovePlayer(room, persistentPlayerId, rnd) ==
  IF ~HasPlayer(room.players, persistentPlayerId)
  THEN [room |-> room, removed |-> FALSE, error |-> NoError]
  ELSE LET player == GetPlayer(room.players, persistentPlayerId)
           remaining == DeletePlayer(room.players, persistentPlayerId)
           deleted == [room EXCEPT
                         !.players = IF player.isHost /\ Len(remaining) > 0
                                     THEN promoteFirst(remaining, 1..Len(remaining))
                                     ELSE remaining,
                         !.playerGames = MapDelete(@, persistentPlayerId),
                         !.socketToPlayer = unbind(@, persistentPlayerId),
                         !.seenLater = @ \ {persistentPlayerId}]
           checked == IF deleted.gameState = "PLAYING" THEN checkRoundEnd(deleted, rnd)
                      ELSE [room |-> deleted, error |-> NoError]
       IN  IF checked.error # NoError
           THEN [room |-> checked.room, removed |-> FALSE, error |-> checked.error]
           ELSE [room |-> [checked.room EXCEPT !.lastActivity = "recent", !.seenLater = {}],
                 removed |-> TRUE, error |-> NoError]

\* the null that getPlayerBySocketId returns
NoPlayer == [id |-> ""]

\* MultiplayerGame.getPlayerBySocketId
getPlayerBySocketId(room, socketId) ==
  IF socketId \in DOMAIN room.socketToPlayer
     /\ HasPlayer(room.players, room.socketToPlayer[socketId])
  THEN GetPlayer(room.players, room.socketToPlayer[socketId])
  ELSE NoPlayer

\* a calculateScore whose floor is reached one guess early
MultiplayerGame_calculateScoreHighFloor(guessesUsed) ==
  IF 100 - (guessesUsed - 1) * 20 > 20 THEN 100 - (guessesUsed - 1) * 20 ELSE 20

\* MultiplayerGame.calculateScore
MultiplayerGame_calculateScore(guessesUsed) ==
  IF 100 - (guessesUsed - 1) * 20 > 10 THEN 100 - (guessesUsed - 1) * 20 ELSE 10

\* playerGame.makeGuess, dispatched on the class of the session
playerGame_makeGuess(g, guess) ==
  IF g.kind = "normal" THEN WordleGame_makeGuess(g, guess)
  ELSE CheatingWordleGame_makeGuess(g, guess)

\* a makeGuess that takes guesses from a player of the room in any status
MultiplayerGame_makeGuessAnyStatus(room, socketId, guess, rnd) ==
  LET player == getPlayerBySocketId(room, socketId)
  IN  IF player.id = NoPlayer.id
      THEN [room |-> room, error |-> "Player not found", result |-> [threw |-> TRUE]]
      ELSE IF room.gameState # "PLAYING"
      THEN [room |-> room, error |-> "Game not in progress", result |-> [threw |-> TRUE]]
      ELSE IF player.id \notin DOMAIN room.playerGames
      THEN [room |-> room, error |-> "Player game not found", result |-> [threw |-> TRUE]]
      ELSE
  LET validation == validateGuess(guess)
  IN  IF ~validation.valid
      THEN [room |-> room, error |-> NoError,
            result |-> [valid |-> FALSE, reason |-> validation.reason]]
      ELSE
  LET r == playerGame_makeGuess(room.playerGames[player.id], guess)
      played == [room EXCEPT !.playerGames[player.id] = r.game]
      i == IndexOf(room.players, player.id)
  IN  IF r.threw
      THEN [room |-> played, error |-> "TypeError", result |-> [threw |-> TRUE]]
      ELSE IF ~r.result.valid
      THEN [room |-> played, error |-> NoError, result |-> r.result]
      ELSE
  LET pushed == [played EXCEPT
                   !.players[i].guesses =
                     Append(@, [guess    |-> toUpperCase(guess),
                                feedback |-> r.result.feedback,
                                round    |-> room.currentRound])]
      finished ==
        IF r.result.status = "WIN"
        THEN [pushed EXCEPT
                !.players[i].score =
                  @ + MultiplayerGame_calculateScore(Len(r.result.guesses)),
                !.players[i].status = "FINISHED"]
        ELSE [pushed EXCEPT !.players[i].status = "FINISHED"]
      checked == IF r.result.status \in {"WIN", "LOSE"} THEN checkRoundEnd(finished, rnd)
                 ELSE [room |-> pushed, error |-> NoError]
  IN  IF checked.error # NoError
      THEN [room |-> checked.room, error |-> checked.error, result |-> [threw |-> TRUE]]
      ELSE [room |-> [checked.room EXCEPT !.lastActivity = "recent", !.seenLater = {}],
            error |-> NoError,
            result |-> r.result]

\* MultiplayerGame.makeGuess: the room after the call, the message of the error
\* thrown (NoError when the call returns) and the value returned
MultiplayerGame_makeGuess(room, socketId, guess, rnd) ==
  LET player == getPlayerBySocketId(room, socketId)
  IN  IF player.id = NoPlayer.id
      THEN [room |-> room, error |-> "Player not found", result |-> [threw |-> TRUE]]
      ELSE IF room.gameState # "PLAYING"
      THEN [room |-> room, error |-> "Game not in progress", result |-> [threw |-> TRUE]]
      ELSE IF player.status # "PLAYING"
      THEN [room |-> room, error |-> "Player not active", result |-> [threw |-> TRUE]]
      ELSE IF player.id \notin DOMAIN room.playerGames
      THEN [room |-> room, error |-> "Player game not found", result |-> [threw |-> TRUE]]
      ELSE
  LET validation == validateGuess(guess)
  IN  IF ~validation.valid
      THEN [room |-> room, error |-> NoError,
            result |-> [valid |-> FALSE, reason |-> validation.reason]]
      ELSE
  LET i == IndexOf(room.players, player.id)
      \* the method from the return of playerGame.makeGuess, r, onwards
      guessed(r) ==
        LET played == [room EXCEPT !.playerGames[player.id] = r.game]
            \* the method from the return of checkRoundEnd, checked, onwards
            roundChecked(checked) ==
              IF checked.error # NoError
              THEN [room |-> checked.room, error |-> checked.error,
                    result |-> [threw |-> TRUE]]
              ELSE [room |-> [checked.room EXCEPT !.lastActivity = "recent", !.seenLater = {}],
                    error |-> NoError,
                    result |-> r.result]
            \* the method from the push of the guess, pushed being the room after it
            guessPushed(pushed) ==
              IF r.result.status = "WIN"
              THEN roundChecked(checkRoundEnd(
                     [pushed EXCEPT
                        !.players[i].score =
                          @ + MultiplayerGame_calculateScore(Len(r.result.guesses)),
                        !.players[i].status = "FINISHED"], rnd))
              ELSE IF r.result.status = "LOSE"
              THEN roundChecked(checkRoundEnd(
                     [pushed EXCEPT !.players[i].status = "FINISHED"], rnd))
              ELSE roundChecked([room |-> pushed, error |-> NoError])
        IN  IF r.threw
            THEN [room |-> played, error |-> "TypeError", result |-> [threw |-> TRUE]]
            ELSE IF ~r.result.valid
            THEN [room |-> played, error |-> NoError, result |-> r.result]
            ELSE guessPushed([played EXCEPT
                                !.players[i].guesses =
                                  Append(@, [guess    |-> toUpperCase(guess),
                                             feedback |-> r.result.feedback,
                                             round    |-> room.currentRound])])
  IN  guessed(playerGame_makeGuess(room.playerGames[player.id], guess))

\* MultiplayerGame.markReadyForNextRound
markReadyForNextRound(room, socketId, rnd) ==
  LET player == getPlayerBySocketId(room, socketId)
  IN  IF player.id = NoPlayer.id
      THEN [room |-> room, error |-> "Player not found"]
      ELSE IF player.status # "FINISHED"
      THEN [room |-> room, error |-> "Player must finish current round first"]
      ELSE LET i == IndexOf(room.players, player.id)
               ready == [room EXCEPT !.players[i].readyForNextRound = TRUE]
           IN  checkAllPlayersReady(ready, rnd)

\* MultiplayerGame.updatePlayerSocketId: the room after the call, the value returned
\* and the message of the Error thrown (NoError when the call returns)
updatePlayerSocketId(room, playerName, newSocketId, rnd) ==
  LET named == {k \in 1..Len(room.players) : room.players[k].name = playerName}
  IN  IF named = {} THEN [room |-> room, reconnected |-> FALSE, error |-> NoError]
      ELSE
  LET i == Min(named)
      player == room.players[i]
      bound == {s \in DOMAIN room.socketToPlayer : room.socketToPlayer[s] = player.id}
      replaced == IF bound = {} THEN room.socketToPlayer
                  ELSE MapDelete(room.socketToPlayer, CHOOSE s \in bound : TRUE)
      mapped == [room EXCEPT !.socketToPlayer = MapSet(replaced, newSocketId, player.id),
                             !.players[i].lastSeen = "recent",
                             !.seenLater = @ \cup {player.id}]
      created == individualGame(room, room.sharedGame, rnd)
  IN  IF /\ player.status = "DISCONNECTED" /\ room.gameState = "PLAYING"
         /\ player.id \notin DOMAIN room.playerGames
         /\ created.kind = "threw"
      THEN [room |-> mapped, reconnected |-> FALSE, error |-> created.error]
      ELSE
      [room |->
         IF player.status # "DISCONNECTED" THEN mapped
         ELSE IF room.gameState = "WAITING"
         THEN [mapped EXCEPT !.players[i].status = "READY"]
         ELSE IF room.gameState = "PLAYING"
         THEN [mapped EXCEPT
                 !.playerGames = IF player.id \in DOMAIN @ THEN @
                                 ELSE MapSet(@, player.id, created),
                 !.players[i].status = "PLAYING"]
         ELSE mapped,
       reconnected |-> TRUE,
       error |-> NoError]

\* the loop of cleanupInactivePlayers from the k-th entry of the players it iterates
RECURSIVE cleanupFrom(_, _, _)
cleanupFrom(room, ids, k) ==
  IF k > Len(ids) THEN room
  ELSE LET player == GetPlayer(room.players, ids[k])
           remaining == DeletePlayer(room.players, ids[k])
       IN  IF player.status = "DISCONNECTED" /\ player.lastSeen = "old"
           THEN cleanupFrom([room EXCEPT
                               !.players = IF player.isHost /\ Len(remaining) > 0
                                           THEN promoteFirst(remaining, 1..Len(remaining))
                                           ELSE remaining,
                               !.playerGames = MapDelete(@, ids[k]),
                               !.socketToPlayer = unbind(@, ids[k]),
                               !.seenLater = @ \ {ids[k]}],
                            ids, k + 1)
           ELSE cleanupFrom(room, ids, k + 1)

\* MultiplayerGame.cleanupInactivePlayers with the timeout the disconnect handler passes
cleanupInactivePlayers(room) ==
  LET cleaned == cleanupFrom(room, [k \in 1..Len(room.players) |-> room.players[k].id], 1)
  IN  IF Len(cleaned.players) < Len(room.players)
      THEN [cleaned EXCEPT !.lastActivity = "recent", !.seenLater = {}]
      ELSE cleaned

----------------------------------------------------------------------------
(* The room registry: RoomManager (roomManager.js) *)

\* new Date() at the creation of a room: later than the creation of every room of
\* the registry
clock(rms) ==
  IF DOMAIN rms = {} THEN 1
  ELSE 1 + CHOOSE t \in {rms[rid].createdAt : rid \in DOMAIN rms} :
             \A rid \in DOMAIN rms : rms[rid].createdAt <= t

\* RoomManager.createRoom; roomId is the identifier generateRoomId returns.  The loop
\* that regenerates a colliding identifier assigns to a const and throws a TypeError.
createRoom(rms, roomId, maxPlayers, gameMode) ==
  IF roomId \in DOMAIN rms
  THEN [rooms |-> rms, error |-> "TypeError"]
  ELSE [rooms |-> MapSet(rms, roomId,
                         MultiplayerGame(roomId, maxPlayers, gameMode, clock(rms))),
        error |-> NoError]

\* RoomManager.joinRoom
joinRoom(rms, roomId, playerId, playerName, persistentPlayerId) ==
  IF roomId \notin DOMAIN rms THEN [rooms |-> rms, error |-> "Room not found"]
  ELSE IF rms[roomId].gameState # "WAITING"
  THEN [rooms |-> rms, error |-> "Game already in progress"]
  ELSE IF Len(rms[roomId].players) >= rms[roomId].maxPlayers
  THEN [rooms |-> rms, error |-> "Room is full"]
  ELSE LET r == addPlayer(rms[roomId], playerId, playerName, persistentPlayerId)
       IN  [rooms |-> [rms EXCEPT ![roomId] = r.room], error |-> r.error]

\* the room a loop over this.rooms stops at ("" when it finds none); found is the set
\* of the rooms that meet its condition.  A Map is iterated in the order of insertion,
\* and createRoom alone inserts: the loop stops at the room created first.
findRoom(rms, found) ==
  IF found # {}
  THEN CHOOSE rid \in found : \A other \in found : rms[rid].createdAt <= rms[other].createdAt
  ELSE ""

\* RoomManager.removePlayerFromRoom: the rooms after the call and the roomId returned
removePlayerFromRoom(rms, socketId) ==
  LET roomId == findRoom(rms, {rid \in DOMAIN rms : socketId \in DOMAIN rms[rid].socketToPlayer})
  IN  IF roomId = "" THEN [rooms |-> rms, roomId |-> ""]
      ELSE [rooms |-> [rms EXCEPT ![roomId] = removePlayer(@, socketId)],
            roomId |-> roomId]

\* RoomManager.handlePlayerExplicitLeave: the rooms after the call, the roomId returned
\* ("" for null), whether the room was deleted, and the message of the Error thrown
handlePlayerExplicitLeave(rms, persistentPlayerId, rnd) ==
  LET roomId == findRoom(rms, {rid \in DOMAIN rms :
                                 HasPlayer(rms[rid].players, persistentPlayerId)})
  IN  IF roomId = ""
      THEN [rooms |-> rms, roomId |-> "", deleted |-> FALSE, error |-> NoError]
      ELSE LET r == explicitlyRemovePlayer(rms[roomId], persistentPlayerId, rnd)
           IN  IF r.error # NoError
               THEN [rooms |-> [rms EXCEPT ![roomId] = r.room], roomId |-> "",
                     deleted |-> FALSE, error |-> r.error]
               ELSE IF Len(r.room.players) = 0
               THEN [rooms |-> MapDelete(rms, roomId), roomId |-> "", deleted |-> TRUE,
                     error |-> NoError]
               ELSE [rooms |-> [rms EXCEPT ![roomId] = r.room], roomId |-> roomId,
                     deleted |-> FALSE, error |-> NoError]

----------------------------------------------------------------------------
(* The socket server: one action per event handler.  One room identifier    *)
(* is in use, so the registry holds at most one room.                       *)

Sockets == {"s1", "s2"}

PlayerNames == {"ann", "bob"}

RoomIds == {"ROOM01"}

MaxPlayersChoices == {2}

\* gameMode of the joinRoom payload, handed to the room unchecked: the two modes of
\* the factory and one it does not know
GameModes == {"normal", "cheating", "hard"}

\* raw guesses a client sends to a room
RoomGuesses == {HELLO, <<"a","b","c">>}

\* indices into the word list that Math.random draws for a shared game
RoomDraws == {1}

\* persistent identifiers, in the order addPlayer hands them out
PlayerIds == <<"p1", "p2", "p3">>

\* the identifier addPlayer generates: one that no player of any room has
freshPlayerId(rms) ==
  PlayerIds[Min({k \in 1..Len(PlayerIds) :
                   \A rid \in DOMAIN rms : ~HasPlayer(rms[rid].players, PlayerIds[k])})]

RoomInit == HarnessIdle /\ SessionIdle /\ RoomIdle

\* socket.on('joinRoom'): the rooms after the event and the message of the error
\* emitted (NoError when the join is accepted).  roomId is the identifier sent by
\* the client, or the one generateRoomId returns when createNew is set.
handleJoinRoom(rms, socket, roomId, playerName, createNew, maxPlayers, gameMode) ==
  IF createNew
  THEN LET c == createRoom(rms, roomId, maxPlayers, gameMode)
       IN  IF c.error # NoError THEN [rooms |-> rms, error |-> c.error]
           ELSE LET a == addPlayer(c.rooms[roomId], socket, playerName, freshPlayerId(rms))
                IN  [rooms |-> [c.rooms EXCEPT ![roomId] = a.room], error |-> a.error]
  ELSE joinRoom(rms, roomId, socket, playerName, freshPlayerId(rms))

\* socket.on('startGame')
handleStartGame(rms, roomId, rnd) ==
  IF roomId \notin DOMAIN rms THEN [rooms |-> rms, error |-> "Room not found"]
  ELSE LET r == startGame(rms[roomId], rnd)
       IN  [rooms |-> [rms EXCEPT ![roomId] = r.room], error |-> r.error]

\* a rejoinRoom handler without the check of the player's live connection
handleRejoinRoomReplacing(rms, socket, roomId, playerName, rnd) ==
  IF roomId \notin DOMAIN rms THEN [rooms |-> rms, error |-> "Room not found"]
  ELSE
  LET room == rms[roomId]
      named == {k \in 1..Len(room.players) : room.players[k].name = playerName}
  IN  IF named = {} THEN [rooms |-> rms, error |-> "Player not found in room"]
      ELSE
  LET u == updatePlayerSocketId(room, playerName, socket, rnd)
  IN  [rooms |-> [rms EXCEPT ![roomId] = u.room],
       error |-> IF u.error # NoError THEN u.error
                 ELSE IF u.reconnected THEN NoError ELSE "Failed to reconnect player"]

\* socket.on('rejoinRoom'): the rooms after the event and the message of the failure
\* emitted (NoError on success)
handleRejoinRoom(rms, socket, roomId, playerName, rnd) ==
  IF roomId \notin DOMAIN rms THEN [rooms |-> rms, error |-> "Room not found"]
  ELSE
  LET room == rms[roomId]
      named == {k \in 1..Len(room.players) : room.players[k].name = playerName}
  IN  IF named = {} THEN [rooms |-> rms, error |-> "Player not found in room"]
      ELSE
  LET existingPlayer == room.players[Min(named)]
  IN  IF \E s \in DOMAIN room.socketToPlayer : room.socketToPlayer[s] = existingPlayer.id
      THEN [rooms |-> rms,
            error |-> "Player is already connected through another session"]
      ELSE
  LET u == updatePlayerSocketId(room, playerName, socket, rnd)
  IN  [rooms |-> [rms EXCEPT ![roomId] = u.room],
       error |-> IF u.error # NoError THEN u.error
                 ELSE IF u.reconnected THEN NoError ELSE "Failed to reconnect player"]

\* a makeGuess handler of a room whose players share one session: the session of
\* the player who guessed becomes the session of every player
handleMakeGuessShared(rms, socket, roomId, guess, rnd) ==
  IF roomId \notin DOMAIN rms
  THEN [rooms |-> rms, error |-> "Room not found", result |-> [threw |-> TRUE]]
  ELSE LET r == MultiplayerGame_makeGuess(rms[roomId], socket, guess, rnd)
           player == getPlayerBySocketId(rms[roomId], socket)
           shared == IF player.id \in DOMAIN r.room.playerGames
                     THEN [r.room EXCEPT !.playerGames =
                             [pid \in DOMAIN @ |-> @[player.id]]]
                     ELSE r.room
       IN  [rooms |-> [rms EXCEPT ![roomId] = shared], error |-> r.error,
            result |-> r.result]

\* socket.on('makeGuess')
handleMakeGuess(rms, socket, roomId, guess, rnd) ==
  IF roomId \notin DOMAIN rms
  THEN [rooms |-> rms, error |-> "Room not found", result |-> [threw |-> TRUE]]
  ELSE LET answered(r) == [rooms |-> [rms EXCEPT ![roomId] = r.room], error |-> r.error,
                            result |-> r.result]
       IN  answered(MultiplayerGame_makeGuess(rms[roomId], socket, guess, rnd))

\* socket.on('markReadyForNextRound'); socketId is the one the client sends
handleMarkReadyForNextRound(rms, roomId, socketId, rnd) ==
  IF roomId \notin DOMAIN rms THEN [rooms |-> rms, error |-> "Room not found"]
  ELSE LET r == markReadyForNextRound(rms[roomId], socketId, rnd)
       IN  [rooms |-> [rms EXCEPT ![roomId] = r.room], error |-> r.error]

OnJoinRoom(socket, roomId, playerName, createNew, maxPlayers, gameMode) ==
  /\ \E k \in 1..Len(PlayerIds) :
       \A rid \in DOMAIN rooms : ~HasPlayer(rooms[rid].players, PlayerIds[k])
  /\ rooms' = handleJoinRoom(rooms, socket, roomId, playerName, createNew, maxPlayers,
                             gameMode).rooms
  /\ UNCHANGED <<sweepTimer, harness, session>>

OnStartGame(roomId, rnd) ==
  /\ rooms' = handleStartGame(rooms, roomId, rnd).rooms
  /\ UNCHANGED <<sweepTimer, harness, session>>

OnRejoinRoom(socket, roomId, playerName, rnd) ==
  /\ rooms' = handleRejoinRoom(rooms, socket, roomId, playerName, rnd).rooms
  /\ UNCHANGED <<sweepTimer, harness, session>>

\* rounds in which the clients of RoomSpec send guesses
MaxPlayedRounds == 1

\* guesses one client of RoomSpec sends in one round
MaxGuessesSent == 1

\* the clients of RoomSpec stop guessing past these bounds
MayGuess(socket, roomId) ==
  roomId \in DOMAIN rooms =>
    /\ rooms[roomId].currentRound <= MaxPlayedRounds
    /\ LET player == getPlayerBySocketId(rooms[roomId], socket)
       IN  player.id # NoPlayer.id => Len(player.guesses) < MaxGuessesSent

\* a client of RoomSpec sends a guess
OnMakeGuess(socket, roomId, guess, rnd) ==
  /\ MayGuess(socket, roomId)
  /\ rooms' = handleMakeGuess(rooms, socket, roomId, guess, rnd).rooms
  /\ UNCHANGED <<sweepTimer, harness, session>>

\* the pending timeouts whose room is in the registry: the callback of a timeout
\* keeps the room object it was armed for, and a room that was deleted is seen by
\* nobody else
pendingIn(timers, rms) == SelectSeq(timers, LAMBDA t : t.roomId \in DOMAIN rms)

\* socket.on('leaveRoom'); playerId is the persistent identifier the client sends
OnLeaveRoom(playerId, rnd) ==
  /\ LET r == handlePlayerExplicitLeave(rooms, playerId, rnd)
     IN  /\ rooms' = r.rooms
         /\ sweepTimer' = pendingIn(sweepTimer, r.rooms)
  /\ UNCHANGED <<harness, session>>

OnMarkReadyForNextRound(roomId, socketId, rnd) ==
  /\ rooms' = handleMarkReadyForNextRound(rooms, roomId, socketId, rnd).rooms
  /\ UNCHANGED <<sweepTimer, harness, session>>

\* timeouts of the disconnect handler that are pending at one time in the model
MaxPendingSweeps == 2

\* socket.on('disconnect'): the player is marked and one more sweep is armed with
\* setTimeout.  The timeout is recorded with the room and the player whose disconnect
\* armed it.
OnDisconnect(socket) ==
  /\ LET r == removePlayerFromRoom(rooms, socket)
     IN  /\ r.roomId # "" => Len(sweepTimer) < MaxPendingSweeps
         /\ rooms' = r.rooms
         /\ sweepTimer' =
              IF r.roomId # ""
              THEN Append(sweepTimer,
                          [roomId   |-> r.roomId,
                           playerId |-> rooms[r.roomId].socketToPlayer[socket]])
              ELSE sweepTimer
  /\ UNCHANGED <<harness, session>>

\* the callback armed by the disconnect handler: cleanupInactivePlayers(5).  Every
\* timeout is armed for one minute, so the oldest fires first.
OnSweepTimer(roomId) ==
  /\ sweepTimer # << >>
  /\ Head(sweepTimer).roomId = roomId
  /\ roomId \in DOMAIN rooms
  /\ rooms' = [rooms EXCEPT ![roomId] = cleanupInactivePlayers(@)]
  /\ sweepTimer' = Tail(sweepTimer)
  /\ UNCHANGED <<harness, session>>

\* the players of a room whose lastActivity is older than the timeout of the room
\* sweep: a disconnected player whose lastSeen was not written after lastActivity was
\* seen longer ago than the sweep timeout; lastSeen of the players in seenLater is
\* another clock and stays as it is
aged(players, seenLater) ==
  [k \in 1..Len(players) |->
     IF players[k].status = "DISCONNECTED" /\ players[k].id \notin seenLater
     THEN [players[k] EXCEPT !.lastSeen = "old"]
     ELSE players[k]]

\* the clock passes the sweep timeout of one disconnected player: (now - lastSeen) of
\* that player is more than 5 minutes from here on.  The timeout armed by the
\* disconnect of the player, one minute long, has fired before.
TimePasses(roomId, playerId) ==
  /\ roomId \in DOMAIN rooms
  /\ HasPlayer(rooms[roomId].players, playerId)
  /\ GetPlayer(rooms[roomId].players, playerId).status = "DISCONNECTED"
  /\ GetPlayer(rooms[roomId].players, playerId).lastSeen = "recent"
  /\ \A k \in 1..Len(sweepTimer) :
       ~(sweepTimer[k].roomId = roomId /\ sweepTimer[k].playerId = playerId)
  /\ rooms' = [rooms EXCEPT
                ![roomId].players[IndexOf(rooms[roomId].players, playerId)].lastSeen = "old"]
  /\ UNCHANGED <<sweepTimer, harness, session>>

RoomNext ==
  \/ \E socket \in Sockets, roomId \in RoomIds, playerName \in PlayerNames,
        createNew \in BOOLEAN, maxPlayers \in MaxPlayersChoices, gameMode \in GameModes :
       OnJoinRoom(socket, roomId, playerName, createNew, maxPlayers, gameMode)
  \/ \E roomId \in RoomIds, rnd \in RoomDraws : OnStartGame(roomId, rnd)
  \/ \E socket \in Sockets, roomId \in RoomIds, playerName \in PlayerNames,
        rnd \in RoomDraws :
       OnRejoinRoom(socket, roomId, playerName, rnd)
  \/ \E socket \in Sockets, roomId \in RoomIds, guess \in RoomGuesses, rnd \in RoomDraws :
       OnMakeGuess(socket, roomId, guess, rnd)
  \/ \E k \in 1..Len(PlayerIds), rnd \in RoomDraws : OnLeaveRoom(PlayerIds[k], rnd)
  \/ \E roomId \in RoomIds, socketId \in Sockets, rnd \in RoomDraws :
       OnMarkReadyForNextRound(roomId, socketId, rnd)
  \/ \E socket \in Sockets : OnDisconnect(socket)
  \/ \E roomId \in RoomIds : OnSweepTimer(roomId)
  \/ \E roomId \in RoomIds, k \in 1..Len(PlayerIds) : TimePasses(roomId, PlayerIds[k])

RoomSpec == RoomInit /\ [][RoomNext]_vars

----------------------------------------------------------------------------
(* One room played to the end of its sessions: the clients join, start and  *)
(* guess until every session of the round is over.                          *)

\* raw guesses a client of RoundSpec sends
RoundGuesses == {HELLO, PANIC}

\* a client of RoundSpec sends a guess, as long as the room is in a round it plays
OnMakeGuessInRound(socket, roomId, guess, rnd) ==
  /\ roomId \in DOMAIN rooms => rooms[roomId].currentRound <= MaxPlayedRounds
  /\ rooms' = handleMakeGuess(rooms, socket, roomId, guess, rnd).rooms
  /\ UNCHANGED <<sweepTimer, harness, session>>

\* the display name the client on a socket joins with in RoundSpec
ClientName(socket) == IF socket = "s1" THEN "ann" ELSE "bob"

RoundNext ==
  \/ \E socket \in Sockets, roomId \in RoomIds, createNew \in BOOLEAN,
        maxPlayers \in MaxPlayersChoices, gameMode \in GameModes :
       OnJoinRoom(socket, roomId, ClientName(socket), createNew, maxPlayers, gameMode)
  \/ \E roomId \in RoomIds, rnd \in RoomDraws : OnStartGame(roomId, rnd)
  \/ \E socket \in Sockets, roomId \in RoomIds, guess \in RoundGuesses, rnd \in RoomDraws :
       OnMakeGuessInRound(socket, roomId, guess, rnd)

RoundSpec == RoomInit /\ [][RoundNext]_vars

----------------------------------------------------------------------------
(* One room played through all its rounds: the clients guess in every       *)
(* round, so that the room reaches the round cap and the state FINISHED.    *)
(* No player stays disconnected for longer than the sweep timeout, so the   *)
(* sweep removes nobody; the timeout armed by a disconnect fires before the *)
(* next event of a client.                                                  *)

\* a client of MatchSpec sends a guess, at most MaxGuessesSent in one round
OnMakeGuessInMatch(socket, roomId, guess, rnd) ==
  /\ roomId \in DOMAIN rooms =>
       LET player == getPlayerBySocketId(rooms[roomId], socket)
       IN  player.id # NoPlayer.id => Len(player.guesses) < MaxGuessesSent
  /\ rooms' = handleMakeGuess(rooms, socket, roomId, guess, rnd).rooms
  /\ UNCHANGED <<sweepTimer, harness, session>>

MatchNext ==
  \/ /\ sweepTimer = << >>
     /\ \E socket \in Sockets, roomId \in RoomIds, createNew \in BOOLEAN,
           maxPlayers \in MaxPlayersChoices, gameMode \in GameModes :
          OnJoinRoom(socket, roomId, ClientName(socket), createNew, maxPlayers, gameMode)
  \/ /\ sweepTimer = << >>
     /\ \E roomId \in RoomIds, rnd \in RoomDraws : OnStartGame(roomId, rnd)
  \/ /\ sweepTimer = << >>
     /\ \E socket \in Sockets, roomId \in RoomIds, rnd \in RoomDraws :
          OnRejoinRoom(socket, roomId, ClientName(socket), rnd)
  \/ /\ sweepTimer = << >>
     /\ \E socket \in Sockets, roomId \in RoomIds, guess \in RoomGuesses,
           rnd \in RoomDraws :
          OnMakeGuessInMatch(socket, roomId, guess, rnd)
  \/ /\ sweepTimer = << >>
     /\ \E k \in 1..Len(PlayerIds), rnd \in RoomDraws : OnLeaveRoom(PlayerIds[k], rnd)
  \/ /\ sweepTimer = << >>
     /\ \E roomId \in RoomIds, socketId \in Sockets, rnd \in RoomDraws :
          OnMarkReadyForNextRound(roomId, socketId, rnd)
  \/ /\ sweepTimer = << >>
     /\ \E socket \in Sockets : OnDisconnect(socket)
  \/ \E roomId \in RoomIds : OnSweepTimer(roomId)

MatchSpec == RoomInit /\ [][MatchNext]_vars

----------------------------------------------------------------------------
(* One room whose shared games draw any word of the word list: the clients  *)
(* join, start, guess through the first rounds, disconnect and rejoin.      *)

\* indices into the word list that Math.random draws in DrawSpec: the first
\* word and the eighth
WordDraws == {1, 8}

\* a client of DrawSpec sends the guess HELLO, as long as the room is in a round it plays
OnMakeGuessAfterDraw(socket, roomId, rnd) ==
  /\ roomId \in DOMAIN rooms => rooms[roomId].currentRound <= MaxPlayedRounds
  /\ rooms' = handleMakeGuess(rooms, socket, roomId, HELLO, rnd).rooms
  /\ UNCHANGED <<sweepTimer, harness, session>>

DrawNext ==
  \/ \E socket \in Sockets, roomId \in RoomIds, createNew \in BOOLEAN,
        maxPlayers \in MaxPlayersChoices, gameMode \in GameModes :
       OnJoinRoom(socket, roomId, ClientName(socket), createNew, maxPlayers, gameMode)
  \/ \E roomId \in RoomIds, rnd \in WordDraws : OnStartGame(roomId, rnd)
  \/ \E socket \in Sockets, roomId \in RoomIds, rnd \in WordDraws :
       OnRejoinRoom(socket, roomId, ClientName(socket), rnd)
  \/ \E socket \in Sockets, roomId \in RoomIds, rnd \in WordDraws :
       OnMakeGuessAfterDraw(socket, roomId, rnd)
  \/ \E socket \in Sockets : OnDisconnect(socket)
  \/ \E roomId \in RoomIds : OnSweepTimer(roomId)

DrawSpec == RoomInit /\ [][DrawNext]_vars

----------------------------------------------------------------------------
(* One room played by clients who stay: each client joins once, the game is *)
(* started, and every client keeps sending valid guesses; nobody leaves or  *)
(* disconnects.  The guess event of each client is weakly fair.             *)

AAAYY == <<"A","A","A","Y","Y">>

\* the valid guesses the client on a socket sends in FinishSpec
ClientGuesses(socket) == IF socket = "s1" THEN {HELLO, AAAYY} ELSE {HELLO}

\* a client that is in no room joins
OnJoinOnce(socket, roomId, createNew, maxPlayers, gameMode) ==
  /\ \A rid \in DOMAIN rooms : socket \notin DOMAIN rooms[rid].socketToPlayer
  /\ OnJoinRoom(socket, roomId, ClientName(socket), createNew, maxPlayers, gameMode)

\* a client sends one more valid guess
OnKeepGuessing(socket, roomId, guess, rnd) ==
  /\ rooms' = handleMakeGuess(rooms, socket, roomId, guess, rnd).rooms
  /\ UNCHANGED <<sweepTimer, harness, session>>

\* the client on the socket sends one more valid guess to some room
KeepGuessing(socket) ==
  \E roomId \in RoomIds, rnd \in RoomDraws :
    \E guess \in ClientGuesses(socket) : OnKeepGuessing(socket, roomId, guess, rnd)

FinishNext ==
  \/ \E socket \in Sockets, roomId \in RoomIds, createNew \in BOOLEAN,
        maxPlayers \in MaxPlayersChoices, gameMode \in GameModes :
       OnJoinOnce(socket, roomId, createNew, maxPlayers, gameMode)
  \/ \E roomId \in RoomIds, rnd \in RoomDraws : OnStartGame(roomId, rnd)
  \/ \E socket \in Sockets : KeepGuessing(socket)

\* ENABLED <<KeepGuessing(socket)>>_vars as a state predicate: some guess of the
\* client changes a room (the guess event leaves everything else unchanged)
GuessChangesRoom(socket) ==
  \E roomId \in RoomIds, rnd \in RoomDraws :
    \E guess \in ClientGuesses(socket) :
      handleMakeGuess(rooms, socket, roomId, guess, rnd).rooms # rooms

\* WF_vars(KeepGuessing(socket)) for every socket, written out as
\* []<>~ENABLED <<A>>_vars \/ []<><<A>>_vars with the predicate above
FinishSpec ==
  /\ RoomInit
  /\ [][FinishNext]_vars
  /\ \A socket \in Sockets :
       \/ []<>(~GuessChangesRoom(socket))
       \/ []<><<KeepGuessing(socket)>>_vars

----------------------------------------------------------------------------
(* The room with its timers: the player sweep armed by a disconnect, the    *)
(* room sweep of the registry (setInterval of startCleanupTimer), and time. *)
(* A timer that is armed fires, and a room left alone grows old: weak       *)
(* fairness.  The timeout of the player sweep passes for a disconnected     *)
(* player whatever else happens in between: strong fairness.                *)

\* more than the timeout of the room sweep passes without activity in the room: every
\* timeout armed by a disconnect in the room, one minute long, has fired before
RoomTimePasses(roomId) ==
  /\ \A k \in 1..Len(sweepTimer) : sweepTimer[k].roomId # roomId
  /\ roomId \in DOMAIN rooms
  /\ rooms[roomId].lastActivity = "recent"
  /\ rooms' = [rooms EXCEPT ![roomId].lastActivity = "old",
                            ![roomId].players = aged(@, rooms[roomId].seenLater)]
  /\ UNCHANGED <<sweepTimer, harness, session>>

\* RoomManager.cleanupInactiveRooms: a room that is FINISHED for more than an hour is
\* inactive for more than 30 minutes as well
cleanupInactiveRooms(rms) ==
  [rid \in {x \in DOMAIN rms : rms[x].lastActivity # "old"} |-> rms[rid]]

\* the callback of the interval timer of the registry
OnCleanupInterval ==
  /\ cleanupInactiveRooms(rooms) # rooms
  /\ rooms' = cleanupInactiveRooms(rooms)
  /\ sweepTimer' = pendingIn(sweepTimer, cleanupInactiveRooms(rooms))
  /\ UNCHANGED <<harness, session>>

SweepNext ==
  \/ RoomNext
  \/ \E roomId \in RoomIds : RoomTimePasses(roomId)
  \/ OnCleanupInterval

SweepSpec ==
  /\ RoomInit
  /\ [][SweepNext]_vars
  /\ WF_vars(\E roomId \in RoomIds : OnSweepTimer(roomId))
  /\ \A k \in 1..Len(PlayerIds) :
       SF_vars(\E roomId \in RoomIds : TimePasses(roomId, PlayerIds[k]))
  /\ WF_vars(\E roomId \in RoomIds : RoomTimePasses(roomId))
  /\ WF_vars(OnCleanupInterval)

----------------------------------------------------------------------------
(* Properties of the room, checked on every reachable state of the room     *)
(* specifications.                                                          *)
(* A property of a command is stated on the value its operator returns for  *)
(* every room the specification reaches and every input of the command.     *)

ActivePlayers(room) ==
  {k \in 1..Len(room.players) : room.players[k].status # "DISCONNECTED"}

FreshSession(g) == g.guesses = << >> /\ g.status = "IN_PROGRESS"

\* the game mode of the room is one of the two the factory knows
KnownMode(room) == room.gameMode \in {"normal", "cheating"}

\* what C11 says of startGame in one room
StartGameAsClaimed(room, rnd) ==
  LET r == startGame(room, rnd)
  IN  /\ (r.error = NoError) <=> (room.gameState = "WAITING" /\ Len(room.players) >= 2)
      /\ Len(room.players) < 2 => r.error = "Need at least 2 players to start"
      /\ (Len(room.players) >= 2 /\ room.gameState # "WAITING")
           => r.error = "Game already in progress"
      /\ r.error # NoError => r.room = room
      /\ r.error = NoError =>
           /\ r.room.gameState = "PLAYING"
           /\ r.room.currentRound = 1
           /\ \A k \in ActivePlayers(r.room) :
                LET p == r.room.players[k]
                IN  /\ p.status = "PLAYING"
                    /\ p.score = 0
                    /\ p.guesses = << >>
                    /\ p.id \in DOMAIN r.room.playerGames
                    /\ FreshSession(r.room.playerGames[p.id])

\* C11: startGame succeeds exactly when the room is WAITING and holds at least two
\* players.  With fewer than two players it throws 'Need at least 2 players to
\* start', in a started room of two or more it throws 'Game already in progress',
\* and a failed start leaves the room as it was.  A successful start sets the room to
\* PLAYING in round 1 and gives every non-disconnected player the status PLAYING,
\* score 0, no guesses and a fresh session.
C11_StartGame ==
  \A rid \in DOMAIN rooms, rnd \in RoomDraws : StartGameAsClaimed(rooms[rid], rnd)

\* the same for the rooms whose game mode the factory knows
StartGameOfKnownMode ==
  \A rid \in DOMAIN rooms, rnd \in RoomDraws :
    KnownMode(rooms[rid]) => StartGameAsClaimed(rooms[rid], rnd)

\* a room of two players in a mode the factory does not know, after a start that
\* threw: PLAYING in round 1, and no player is PLAYING or has a session
UnknownModeStarted ==
  \E rid \in DOMAIN rooms :
    /\ ~KnownMode(rooms[rid])
    /\ rooms[rid].gameState = "PLAYING"
    /\ rooms[rid].currentRound = 1
    /\ Len(rooms[rid].players) = 2
    /\ rooms[rid].playerGames = EmptyMap
    /\ rooms[rid].sharedGame = NoGame
    /\ \A k \in 1..Len(rooms[rid].players) : rooms[rid].players[k].status = "READY"

\* a room just started: round 1, two players, nobody has guessed
KnownModeStarted ==
  \E rid \in DOMAIN rooms :
    /\ rooms[rid].gameState = "PLAYING"
    /\ rooms[rid].currentRound = 1
    /\ Len(rooms[rid].players) = 2
    /\ \A k \in 1..Len(rooms[rid].players) :
         /\ rooms[rid].players[k].status = "PLAYING"
         /\ rooms[rid].players[k].guesses = << >>
         /\ FreshSession(rooms[rid].playerGames[rooms[rid].players[k].id])

PlayerIdsOf(room) == [k \in 1..Len(room.players) |-> room.players[k].id]

\* the outcome of a disconnect of socket s followed by a rejoin of the player it was
\* bound to, under the same display name, from socket s2
Restored(rid, s, s2, rnd) ==
  LET room == rooms[rid]
      p == getPlayerBySocketId(room, s)
      u == handleRejoinRoom(removePlayerFromRoom(rooms, s).rooms, s2, rid, p.name, rnd)
      after == u.rooms[rid]
      q == GetPlayer(after.players, p.id)
  IN  /\ u.error = NoError
      /\ PlayerIdsOf(after) = PlayerIdsOf(room)
      /\ q.score = p.score
      /\ q.guesses = p.guesses
      /\ p.id \in DOMAIN room.playerGames =>
           /\ p.id \in DOMAIN after.playerGames
           /\ after.playerGames[p.id] = room.playerGames[p.id]
      /\ q.status = IF room.gameState = "WAITING" THEN "READY" ELSE "PLAYING"

\* C12: in a WAITING or PLAYING room, for any connected player, a disconnect followed
\* by a reconnect with the same display name leaves the same players in the room
\* (none removed, none added) and the player keeps its persistent identifier, score,
\* session and guess history, with status READY (WAITING room) or PLAYING (PLAYING
\* room).
C12_DisconnectReconnect ==
  \A rid \in DOMAIN rooms, s \in Sockets, s2 \in Sockets, rnd \in RoomDraws :
    (/\ rooms[rid].gameState \in {"WAITING", "PLAYING"}
     /\ getPlayerBySocketId(rooms[rid], s).id # NoPlayer.id)
      => Restored(rid, s, s2, rnd)

NameCount(room, name) ==
  Cardinality({k \in 1..Len(room.players) : room.players[k].name = name})

\* what the code does guarantee: the same, for a connected player whose display name
\* no other player of the room has, in a room whose game mode the factory knows
DisconnectReconnectUniqueName ==
  \A rid \in DOMAIN rooms, s \in Sockets, s2 \in Sockets, rnd \in RoomDraws :
    (/\ rooms[rid].gameState \in {"WAITING", "PLAYING"}
     /\ KnownMode(rooms[rid])
     /\ getPlayerBySocketId(rooms[rid], s).id # NoPlayer.id
     /\ NameCount(rooms[rid], getPlayerBySocketId(rooms[rid], s).name) = 1)
      => Restored(rid, s, s2, rnd)

\* a player with a name of its own has guessed in a PLAYING room, and a disconnect
\* and reconnect from another socket restore it
RestoredAfterGuess ==
  \E rid \in DOMAIN rooms, s \in Sockets, s2 \in Sockets, rnd \in RoomDraws :
    LET p == getPlayerBySocketId(rooms[rid], s)
    IN  /\ rooms[rid].gameState = "PLAYING"
        /\ p.id # NoPlayer.id
        /\ NameCount(rooms[rid], p.name) = 1
        /\ p.guesses # << >>
        /\ p.id \in DOMAIN rooms[rid].playerGames
        /\ s2 # s
        /\ Restored(rid, s, s2, rnd)

\* C13: after every command, a room with at least one non-disconnected player has
\* exactly one player that is not DISCONNECTED and has isHost = true.
C13_OneActiveHost ==
  \A rid \in DOMAIN rooms :
    ActivePlayers(rooms[rid]) # {} =>
      Cardinality({k \in ActivePlayers(rooms[rid]) : rooms[rid].players[k].isHost}) = 1

\* two connected hosts at once
TwoActiveHosts ==
  \E rid \in DOMAIN rooms :
    Cardinality({k \in ActivePlayers(rooms[rid]) : rooms[rid].players[k].isHost}) = 2

\* the round of a room has advanced between two values of the room
Advanced(before, after) ==
  \/ after.currentRound > before.currentRound
  \/ after.gameState = "FINISHED" /\ before.gameState # "FINISHED"

\* the players with status PLAYING, but for the one that acts
StillPlaying(room, acting) ==
  {k \in 1..Len(room.players) :
     room.players[k].status = "PLAYING" /\ room.players[k].id # acting}

\* C14: a round advances (currentRound increases or the room becomes FINISHED) only
\* in a step at which no player still has status PLAYING, whichever command triggers
\* the advance: the guess that finishes a player, markReadyForNextRound, or an
\* explicit leave.
C14_AdvanceOnlyWhenNonePlaying ==
  \A rid \in DOMAIN rooms, rnd \in RoomDraws :
    LET room == rooms[rid]
    IN  /\ \A s \in Sockets, guess \in RoomGuesses :
             Advanced(room, MultiplayerGame_makeGuess(room, s, guess, rnd).room)
               => StillPlaying(room, getPlayerBySocketId(room, s).id) = {}
        /\ \A s \in Sockets :
             Advanced(room, markReadyForNextRound(room, s, rnd).room)
               => StillPlaying(room, "") = {}
        /\ \A k \in 1..Len(PlayerIds) :
             Advanced(room, explicitlyRemovePlayer(room, PlayerIds[k], rnd).room)
               => StillPlaying(room, PlayerIds[k]) = {}

\* the same for the guess and the explicit leave alone, which go through checkRoundEnd
AdvanceByCheckRoundEnd ==
  \A rid \in DOMAIN rooms, rnd \in RoomDraws :
    LET room == rooms[rid]
    IN  /\ \A s \in Sockets, guess \in RoomGuesses :
             Advanced(room, MultiplayerGame_makeGuess(room, s, guess, rnd).room)
               => StillPlaying(room, getPlayerBySocketId(room, s).id) = {}
        /\ \A k \in 1..Len(PlayerIds) :
             Advanced(room, explicitlyRemovePlayer(room, PlayerIds[k], rnd).room)
               => StillPlaying(room, PlayerIds[k]) = {}

\* what C15 says of the advance of one room to a new round
NewRoundAsClaimed(room, rnd) ==
  LET after == startNewRound(room, rnd).room
  IN  /\ after.currentRound = room.currentRound + 1
      /\ Len(after.players) = Len(room.players)
      /\ \A k \in 1..Len(room.players) :
           /\ after.players[k].score = room.players[k].score
           /\ after.players[k].name = room.players[k].name
           /\ after.players[k].id = room.players[k].id
           /\ after.players[k].isHost = room.players[k].isHost
      /\ \A k \in ActivePlayers(room) :
           LET p == after.players[k]
           IN  /\ p.guesses = << >>
               /\ p.status = "PLAYING"
               /\ p.readyForNextRound = FALSE
               /\ p.id \in DOMAIN after.playerGames
               /\ FreshSession(after.playerGames[p.id])

\* C15: advancing to a new round gives every non-disconnected player an empty guess
\* list, the status PLAYING, readyForNextRound = false and a fresh IN_PROGRESS
\* session, and leaves the score, display name, persistent identifier and host flag
\* of every player as they were.
C15_NewRoundFrame ==
  \A rid \in DOMAIN rooms, rnd \in RoomDraws :
    rooms[rid].gameState = "PLAYING" => NewRoundAsClaimed(rooms[rid], rnd)

\* the same for the rooms whose game mode the factory knows
NewRoundOfKnownMode ==
  \A rid \in DOMAIN rooms, rnd \in RoomDraws :
    (rooms[rid].gameState = "PLAYING" /\ KnownMode(rooms[rid]))
      => NewRoundAsClaimed(rooms[rid], rnd)

\* a room in a mode the factory does not know has advanced to round 2, by the leave
\* of a player: the player who is left is not PLAYING and has no session
UnknownModeAdvanced ==
  \E rid \in DOMAIN rooms :
    /\ ~KnownMode(rooms[rid])
    /\ rooms[rid].gameState = "PLAYING"
    /\ rooms[rid].currentRound = 2
    /\ \E k \in ActivePlayers(rooms[rid]) :
         /\ rooms[rid].players[k].status # "PLAYING"
         /\ rooms[rid].players[k].id \notin DOMAIN rooms[rid].playerGames

\* round 2 has begun: a player who scored in round 1 keeps the score and has no
\* guesses, and startNewRound would carry the score into round 3
KnownModeAdvanced ==
  \E rid \in DOMAIN rooms, rnd \in RoomDraws :
    /\ rooms[rid].gameState = "PLAYING"
    /\ rooms[rid].currentRound = 2
    /\ \E k \in ActivePlayers(rooms[rid]) :
         /\ rooms[rid].players[k].score > 0
         /\ rooms[rid].players[k].guesses = << >>
         /\ rooms[rid].players[k].status = "PLAYING"
         /\ startNewRound(rooms[rid], rnd).room.players[k].score = rooms[rid].players[k].score

\* C16: a room in state PLAYING that has a non-disconnected player always has a
\* non-disconnected player who is not FINISHED: the round ends as soon as every
\* non-disconnected player is FINISHED, whichever command brought that about.
C16_RoundEndsWhenAllFinished ==
  \A rid \in DOMAIN rooms :
    (rooms[rid].gameState = "PLAYING" /\ ActivePlayers(rooms[rid]) # {}) =>
      \E k \in ActivePlayers(rooms[rid]) : rooms[rid].players[k].status # "FINISHED"

\* the round is over for everyone still connected, and the room is still PLAYING
\* because the last unfinished player went away by a disconnect
StuckRound ==
  \E rid \in DOMAIN rooms :
    /\ rooms[rid].gameState = "PLAYING"
    /\ ActivePlayers(rooms[rid]) # {}
    /\ \A k \in ActivePlayers(rooms[rid]) : rooms[rid].players[k].status = "FINISHED"
    /\ \E k \in 1..Len(rooms[rid].players) : rooms[rid].players[k].status = "DISCONNECTED"

\* the words of the guesses a session has taken, in order
GuessWords(g) == [k \in 1..Len(g.guesses) |-> g.guesses[k].guess]

\* C17: in both answer modes all sessions of a room in one round are driven by the
\* same secret word: two sessions that took the same sequence of guesses hold the
\* same feedback, the sessions of a fixed-answer round hold the same answer, and the
\* answer a guess reveals when it ends a player's session equals the answer of
\* every other session of the round that is over.
C17_SameSecret ==
  \A rid \in DOMAIN rooms :
    LET room == rooms[rid]
    IN  room.gameState = "PLAYING" =>
          /\ \A p, q \in DOMAIN room.playerGames :
               /\ GuessWords(room.playerGames[p]) = GuessWords(room.playerGames[q])
                    => room.playerGames[p].guesses = room.playerGames[q].guesses
               /\ room.gameMode = "normal"
                    => room.playerGames[p].answer = room.playerGames[q].answer
          /\ \A socket \in Sockets, guess \in RoundGuesses, rnd \in RoomDraws :
               LET r == handleMakeGuess(rooms, socket, rid, guess, rnd)
                   player == getPlayerBySocketId(room, socket)
               IN  (r.error = NoError /\ r.result.valid
                      /\ r.result.status # "IN_PROGRESS") =>
                     \A q \in DOMAIN room.playerGames \ {player.id} :
                       room.playerGames[q].status # "IN_PROGRESS" =>
                         WorkingAnswer(room.playerGames[q]) = r.result.answer

\* the same, for the rounds played with a fixed answer
SameSecretFixedAnswer ==
  \A rid \in DOMAIN rooms : rooms[rid].gameMode = "normal" => C17_SameSecret

\* a fixed-answer round in which one session is over and a guess of the other player
\* ends the other session
SecondSessionEnds ==
  \E rid \in DOMAIN rooms, socket \in Sockets, guess \in RoundGuesses, rnd \in RoomDraws :
    LET room == rooms[rid]
        r == handleMakeGuess(rooms, socket, rid, guess, rnd)
    IN  /\ room.gameState = "PLAYING" /\ room.gameMode = "normal"
        /\ r.error = NoError /\ r.result.valid /\ r.result.status = "LOSE"
        /\ \E q \in DOMAIN room.playerGames \ {getPlayerBySocketId(room, socket).id} :
             room.playerGames[q].status = "WIN"

\* the message a join of a room must be rejected with: 'Room is full' when the room
\* holds maxPlayers players, 'Game already in progress' when it is not WAITING
JoinRejection(room, error) ==
  /\ Len(room.players) >= room.maxPlayers \/ room.gameState # "WAITING"
       => error \in {"Room is full", "Game already in progress"}
  /\ (Len(room.players) >= room.maxPlayers /\ room.gameState = "WAITING")
       => error = "Room is full"
  /\ (Len(room.players) < room.maxPlayers /\ room.gameState # "WAITING")
       => error = "Game already in progress"

\* C18: a join of a room that holds maxPlayers players is rejected with 'Room is
\* full' and a join of a room that is not WAITING with 'Game already in progress',
\* by the join command and by addPlayer alike and without a change to the room, so
\* that no room ever has more players than its maxPlayers.
C18_JoinBounded ==
  \A rid \in DOMAIN rooms :
    /\ Len(rooms[rid].players) <= rooms[rid].maxPlayers
    /\ \A socket \in Sockets, playerName \in PlayerNames :
         LET room == rooms[rid]
             a == addPlayer(room, socket, playerName, freshPlayerId(rooms))
             j == handleJoinRoom(rooms, socket, rid, playerName, FALSE,
                                 room.maxPlayers, room.gameMode)
         IN  (Len(room.players) >= room.maxPlayers \/ room.gameState # "WAITING") =>
               /\ JoinRejection(room, a.error) /\ a.room = room
               /\ JoinRejection(room, j.error) /\ j.rooms = rooms

\* a WAITING room holds maxPlayers players and one more join is answered 'Room is full'
C18_Witness ==
  \E rid \in DOMAIN rooms, socket \in Sockets, playerName \in PlayerNames :
    /\ rooms[rid].gameState = "WAITING"
    /\ Len(rooms[rid].players) = rooms[rid].maxPlayers
    /\ handleJoinRoom(rooms, socket, rid, playerName, FALSE, rooms[rid].maxPlayers,
                      rooms[rid].gameMode).error = "Room is full"
    /\ addPlayer(rooms[rid], socket, playerName, freshPlayerId(rooms)).error
         = "Room is full"

\* the connections bound to the first player of a room that has the given name
LiveConnections(room, playerName) ==
  LET named == {k \in 1..Len(room.players) : room.players[k].name = playerName}
  IN  IF named = {} THEN {}
      ELSE {s \in DOMAIN room.socketToPlayer :
              room.socketToPlayer[s] = room.players[Min(named)].id}

\* C19: a reconnect is rejected with one reason when no player of the room has the
\* given display name and with another reason when the player it matches is bound
\* to a live connection; in both cases the players, their statuses and the
\* connection bindings of the room are as before.
C19_ReconnectRejected ==
  \A rid \in DOMAIN rooms, socket \in Sockets, playerName \in PlayerNames,
     rnd \in RoomDraws :
    LET room == rooms[rid]
        r == handleRejoinRoom(rooms, socket, rid, playerName, rnd)
    IN  /\ NameCount(room, playerName) = 0 =>
             /\ r.error = "Player not found in room"
             /\ r.rooms = rooms
        /\ LiveConnections(room, playerName) # {} =>
             /\ r.error = "Player is already connected through another session"
             /\ r.error # "Player not found in room"
             /\ r.rooms = rooms

\* a room in which one name is absent and another is that of a connected player: a
\* reconnect from a second connection is rejected for each, with different reasons
C19_Witness ==
  \E rid \in DOMAIN rooms, socket \in Sockets, absent, connected \in PlayerNames,
     rnd \in RoomDraws :
    /\ NameCount(rooms[rid], absent) = 0
    /\ LiveConnections(rooms[rid], connected) # {}
    /\ socket \notin LiveConnections(rooms[rid], connected)
    /\ handleRejoinRoom(rooms, socket, rid, absent, rnd).error
         = "Player not found in room"
    /\ handleRejoinRoom(rooms, socket, rid, connected, rnd).error
         = "Player is already connected through another session"

\* C20: a reconnect with a display name that two or more players of the room have
\* is rejected as ambiguous, with a reason of its own: the connection is bound to
\* none of them and no player's status changes.
C20_AmbiguousRejected ==
  \A rid \in DOMAIN rooms, socket \in Sockets, playerName \in PlayerNames,
     rnd \in RoomDraws :
    NameCount(rooms[rid], playerName) >= 2 =>
      LET r == handleRejoinRoom(rooms, socket, rid, playerName, rnd)
      IN  /\ r.error \notin {NoError, "Player not found in room",
                             "Player is already connected through another session"}
          /\ r.rooms = rooms

\* two players have the same name and a reconnect with that name succeeds: the
\* connection is bound to the first of them, whose status changes
AmbiguousReconnectBinds ==
  \E rid \in DOMAIN rooms, socket \in Sockets, playerName \in PlayerNames,
     rnd \in RoomDraws :
    LET r == handleRejoinRoom(rooms, socket, rid, playerName, rnd)
    IN  /\ NameCount(rooms[rid], playerName) >= 2
        /\ r.error = NoError
        /\ socket \in DOMAIN r.rooms[rid].socketToPlayer
        /\ \E k \in 1..Len(rooms[rid].players) :
             r.rooms[rid].players[k].status # rooms[rid].players[k].status

\* the player pid, the player's session and every connection bound to the player are
\* gone from the room, the other players are those of before, in their order, and
\* one of them is host if the player was
LeaverRemoved(before, after, pid) ==
  /\ ~HasPlayer(after.players, pid)
  /\ pid \notin DOMAIN after.playerGames
  /\ \A s \in DOMAIN after.socketToPlayer : after.socketToPlayer[s] # pid
  /\ PlayerIdsOf(after) = PlayerIdsOf([players |-> DeletePlayer(before.players, pid)])
  /\ GetPlayer(before.players, pid).isHost =>
       \E k \in 1..Len(after.players) : after.players[k].isHost

\* the leave of pid ends the round: the room is PLAYING and no other player is
RoundEndsByLeave(before, pid) ==
  /\ before.gameState = "PLAYING"
  /\ \A k \in 1..Len(before.players) :
       before.players[k].id # pid => before.players[k].status # "PLAYING"

\* C21 as stated: an explicit leave removes the player, the session and the
\* connection bindings of the player; a remaining player is host if the leaver was;
\* the room is deleted from the registry when no player remains; the scores and the
\* guesses of the other players are unchanged.
C21_ExplicitLeave ==
  \A rid \in DOMAIN rooms, k \in 1..Len(PlayerIds), rnd \in RoomDraws :
    HasPlayer(rooms[rid].players, PlayerIds[k]) =>
      LET pid == PlayerIds[k]
          before == rooms[rid]
          r == handlePlayerExplicitLeave(rooms, pid, rnd)
      IN  IF Len(before.players) = 1
          THEN rid \notin DOMAIN r.rooms /\ r.deleted
          ELSE /\ rid \in DOMAIN r.rooms
               /\ LeaverRemoved(before, r.rooms[rid], pid)
               /\ \A j \in 1..Len(r.rooms[rid].players) :
                    LET q == r.rooms[rid].players[j]
                    IN  /\ q.score = GetPlayer(before.players, q.id).score
                        /\ q.guesses = GetPlayer(before.players, q.id).guesses

\* in the rooms whose game mode the factory knows: the same, except that the guesses
\* of the other players are unchanged only when the leave does not end the round;
\* when the leaver was the last player still PLAYING the round ends with the leave,
\* and below the round cap the next round starts with empty guess lists.  The scores
\* are unchanged always.
ExplicitLeaveOfKnownMode ==
  \A rid \in DOMAIN rooms, k \in 1..Len(PlayerIds), rnd \in RoomDraws :
    (HasPlayer(rooms[rid].players, PlayerIds[k]) /\ KnownMode(rooms[rid])) =>
      LET pid == PlayerIds[k]
          before == rooms[rid]
          r == handlePlayerExplicitLeave(rooms, pid, rnd)
      IN  IF Len(before.players) = 1
          THEN rid \notin DOMAIN r.rooms /\ r.deleted
          ELSE /\ rid \in DOMAIN r.rooms
               /\ LeaverRemoved(before, r.rooms[rid], pid)
               /\ \A j \in 1..Len(r.rooms[rid].players) :
                    LET q == r.rooms[rid].players[j]
                        old == GetPlayer(before.players, q.id)
                    IN  /\ q.score = old.score
                        /\ ~RoundEndsByLeave(before, pid) =>
                             q.guesses = old.guesses /\ q.status = old.status
                        /\ RoundEndsByLeave(before, pid) =>
                             \/ q.guesses = old.guesses
                             \/ /\ r.rooms[rid].currentRound = before.currentRound + 1
                                /\ q.guesses = << >>

\* the last player of a started room in a mode the factory does not know leaves: the
\* leave throws after the player is removed, and the room stays in the registry
\* without players
LeaveThrows ==
  \E rid \in DOMAIN rooms, k \in 1..Len(PlayerIds), rnd \in RoomDraws :
    LET r == handlePlayerExplicitLeave(rooms, PlayerIds[k], rnd)
    IN  /\ HasPlayer(rooms[rid].players, PlayerIds[k])
        /\ Len(rooms[rid].players) = 1
        /\ r.error # NoError
        /\ ~r.deleted
        /\ rid \in DOMAIN r.rooms
        /\ r.rooms[rid].players = << >>

\* the last unfinished player leaves a round in which the other player has finished
\* with a guess: the round ends and the guess list of the other player is emptied
LeaveClearsGuesses ==
  \E rid \in DOMAIN rooms, k \in 1..Len(PlayerIds), rnd \in RoomDraws :
    LET r == handlePlayerExplicitLeave(rooms, PlayerIds[k], rnd)
    IN  /\ HasPlayer(rooms[rid].players, PlayerIds[k])
        /\ KnownMode(rooms[rid])
        /\ rid \in DOMAIN r.rooms
        /\ \E j \in 1..Len(r.rooms[rid].players) :
             LET q == r.rooms[rid].players[j]
             IN  /\ GetPlayer(rooms[rid].players, q.id).guesses # << >>
                 /\ q.guesses = << >>

\* the host leaves a round in which the other player has made a guess and is still
\* PLAYING: the other player is host now and has the guess and the session of before
HostLeavesRound ==
  \E rid \in DOMAIN rooms, k \in 1..Len(PlayerIds), rnd \in RoomDraws :
    LET pid == PlayerIds[k]
        r == handlePlayerExplicitLeave(rooms, pid, rnd)
    IN  /\ HasPlayer(rooms[rid].players, pid)
        /\ GetPlayer(rooms[rid].players, pid).isHost
        /\ rooms[rid].gameState = "PLAYING"
        /\ rid \in DOMAIN r.rooms
        /\ \E j \in 1..Len(r.rooms[rid].players) :
             LET q == r.rooms[rid].players[j]
             IN  /\ q.isHost /\ ~GetPlayer(rooms[rid].players, q.id).isHost
                 /\ q.status = "PLAYING"
                 /\ q.guesses # << >>
                 /\ q.guesses = GetPlayer(rooms[rid].players, q.id).guesses
                 /\ r.rooms[rid].playerGames[q.id] = rooms[rid].playerGames[q.id]

\* max(100 - 20 (g - 1), 10)
Award(g) == IF 100 - 20 * (g - 1) > 10 THEN 100 - 20 * (g - 1) ELSE 10

\* the guesses a player has made in the current round of the room
GuessesInRound(room, player) ==
  Cardinality({k \in 1..Len(player.guesses) : player.guesses[k].round = room.currentRound})

\* every player of every room of after who was a player before has the score of before
ScoresKept(before, after) ==
  \A rid \in DOMAIN after \cap DOMAIN before :
    \A k \in 1..Len(after[rid].players) :
      LET q == after[rid].players[k]
      IN  HasPlayer(before[rid].players, q.id) =>
            q.score = GetPlayer(before[rid].players, q.id).score

\* C22: a player's score changes only when a guess of that player wins the round,
\* and then grows by max(100 - 20 (g - 1), 10) for the g-th guess of the player in
\* the round: 100 for the first guess, strictly less for each further guess up to
\* the sixth, never less than 10.  A guess that loses the round sets the player
\* FINISHED and leaves the score; no other command changes a score.
C22_ScoreOnWin ==
  /\ MultiplayerGame_calculateScore(1) = 100
  /\ \A g \in 1..SessionRounds :
       /\ MultiplayerGame_calculateScore(g) = Award(g)
       /\ MultiplayerGame_calculateScore(g) >= 10
       /\ g > 1 => MultiplayerGame_calculateScore(g) < MultiplayerGame_calculateScore(g - 1)
  /\ \A rid \in DOMAIN rooms, socket \in Sockets, guess \in RoundGuesses \cup RoomGuesses,
        rnd \in RoomDraws :
       LET room == rooms[rid]
           r == handleMakeGuess(rooms, socket, rid, guess, rnd)
           player == getPlayerBySocketId(room, socket)
           won == r.error = NoError /\ r.result.valid /\ r.result.status = "WIN"
           lost == r.error = NoError /\ r.result.valid /\ r.result.status = "LOSE"
       IN  /\ PlayerIdsOf(r.rooms[rid]) = PlayerIdsOf(room)
           /\ \A k \in 1..Len(room.players) :
                LET p == room.players[k]
                    q == r.rooms[rid].players[k]
                IN  IF won /\ p.id = player.id
                    THEN q.score = p.score + Award(GuessesInRound(room, p) + 1)
                    ELSE q.score = p.score
           /\ lost => LET q == GetPlayer(r.rooms[rid].players, player.id)
                      IN  \/ q.status = "FINISHED"
                          \/ r.rooms[rid].currentRound = room.currentRound + 1
  /\ \A rid \in RoomIds, socket \in Sockets, playerName \in PlayerNames,
        createNew \in BOOLEAN, rnd \in RoomDraws :
       /\ ScoresKept(rooms, handleJoinRoom(rooms, socket, rid, playerName, createNew,
                                           2, "normal").rooms)
       /\ ScoresKept(rooms, handleStartGame(rooms, rid, rnd).rooms)
       /\ ScoresKept(rooms, handleRejoinRoom(rooms, socket, rid, playerName, rnd).rooms)
       /\ ScoresKept(rooms, handleMarkReadyForNextRound(rooms, rid, socket, rnd).rooms)
       /\ ScoresKept(rooms, removePlayerFromRoom(rooms, socket).rooms)
  /\ \A k \in 1..Len(PlayerIds), rnd \in RoomDraws :
       ScoresKept(rooms, handlePlayerExplicitLeave(rooms, PlayerIds[k], rnd).rooms)
  /\ \A rid \in DOMAIN rooms :
       ScoresKept(rooms, [rooms EXCEPT ![rid] = cleanupInactivePlayers(@)])

\* a player who has made three guesses in the round wins with the fourth and is
\* awarded 40 on top of the score
C22_Witness ==
  \E rid \in DOMAIN rooms, socket \in Sockets, guess \in RoundGuesses, rnd \in RoomDraws :
    LET room == rooms[rid]
        r == handleMakeGuess(rooms, socket, rid, guess, rnd)
        player == getPlayerBySocketId(room, socket)
    IN  /\ player.id # NoPlayer.id
        /\ GuessesInRound(room, player) = 3
        /\ r.error = NoError /\ r.result.valid /\ r.result.status = "WIN"
        /\ GetPlayer(r.rooms[rid].players, player.id).score = player.score + 40

\* the states a room may be in one step after being in state s
NextStates(s) ==
  IF s = "WAITING" THEN {"WAITING", "PLAYING"}
  ELSE IF s = "PLAYING" THEN {"PLAYING", "FINISHED"}
  ELSE {"FINISHED"}

\* one step of a room that stays in the registry, as C23 allows it
RoomStepAllowed(before, after) ==
  /\ after.gameState \in NextStates(before.gameState)
  /\ after.currentRound \in {before.currentRound, before.currentRound + 1}
  /\ (before.gameState = "WAITING" /\ after.gameState = "PLAYING")
       => after.currentRound = 1
  /\ (before.gameState = "PLAYING" /\ after.gameState = "PLAYING")
       => (after.currentRound = before.currentRound + 1
             => before.currentRound < RoundCap)
  /\ (before.gameState = "PLAYING" /\ after.gameState = "FINISHED")
       => before.currentRound = RoundCap /\ after.currentRound = RoundCap
  /\ before.gameState = "FINISHED" => after.currentRound = before.currentRound

\* C23: the state of a room only moves WAITING -> PLAYING -> FINISHED; currentRound
\* is 0 while WAITING, never decreases and grows by one per round advance; the room
\* becomes FINISHED exactly when the round at the cap ends; FINISHED is terminal: no
\* guess, markReady, start, join, leave or reconnect changes state or currentRound.
C23_StateMachine ==
  /\ [](\A rid \in DOMAIN rooms :
          /\ rooms[rid].gameState = "WAITING" <=> rooms[rid].currentRound = 0
          /\ rooms[rid].currentRound <= RoundCap
          /\ rooms[rid].gameState = "FINISHED" => rooms[rid].currentRound = RoundCap)
  /\ [][\A rid \in DOMAIN rooms \cap DOMAIN rooms' :
          RoomStepAllowed(rooms[rid], rooms'[rid])]_vars

\* the room at the round cap: a guess ends the last round and the room is FINISHED
C23_Witness ==
  \E rid \in DOMAIN rooms :
    /\ rooms[rid].gameState = "FINISHED"
    /\ rooms[rid].currentRound = RoundCap
    /\ Len(rooms[rid].players) = 2
    /\ \A k \in 1..2 : rooms[rid].players[k].score > 0

\* the rounds of a game according to the README
ReadmeRounds == 3

\* C24: a multiplayer game consists of 3 rounds: currentRound never exceeds 3 and the
\* room is FINISHED once round 3 has ended, so a room never plays a round beyond it.
C24_ThreeRounds ==
  \A rid \in DOMAIN rooms :
    /\ rooms[rid].currentRound <= ReadmeRounds
    /\ rooms[rid].gameState = "FINISHED" => rooms[rid].currentRound = ReadmeRounds

\* a room is PLAYING in round 4
FourthRound ==
  \E rid \in DOMAIN rooms :
    rooms[rid].gameState = "PLAYING" /\ rooms[rid].currentRound = ReadmeRounds + 1

\* values of maxPlayers a client sends with a joinRoom that creates a room
RequestedMaxPlayers == {0} \cup MaxPlayersChoices

\* a command answered with an error leaves the registry and every room as they were
Unchanged(r) == r.error # NoError => r.rooms = rooms

\* the rejections of start, guess, reconnect and markReadyForNextRound, and of a join
\* of an existing room, change nothing
RejectionChangesNothingIn(rid, socket, rnd) ==
    /\ Unchanged(handleStartGame(rooms, rid, rnd))
    /\ Unchanged(handleMarkReadyForNextRound(rooms, rid, socket, rnd))
    /\ \A playerName \in PlayerNames :
         /\ Unchanged(handleRejoinRoom(rooms, socket, rid, playerName, rnd))
         /\ \A maxPlayers \in RequestedMaxPlayers, gameMode \in GameModes :
              Unchanged(handleJoinRoom(rooms, socket, rid, playerName, FALSE,
                                       maxPlayers, gameMode))
    /\ \A guess \in RoomGuesses :
         LET r == handleMakeGuess(rooms, socket, rid, guess, rnd)
         IN  (r.error # NoError \/ ~r.result.valid) => r.rooms = rooms

\* the same in the rooms whose game mode the factory knows
RejectionChangesNothingBesideCreate ==
  \A rid \in RoomIds, socket \in Sockets, rnd \in RoomDraws :
    (rid \in DOMAIN rooms => KnownMode(rooms[rid]))
      => RejectionChangesNothingIn(rid, socket, rnd)

\* C25: every rejected command changes nothing: a create-or-join (of an unknown, full
\* or started room, or a create whose initial join fails), a start, a guess, a
\* reconnect or a markReadyForNextRound that is answered with an error leaves the
\* set of rooms and every room exactly as they were before the command.
C25_RejectionChangesNothing ==
  /\ \A rid \in RoomIds, socket \in Sockets, rnd \in RoomDraws :
       RejectionChangesNothingIn(rid, socket, rnd)
  /\ \A rid \in RoomIds, socket \in Sockets, playerName \in PlayerNames,
        maxPlayers \in RequestedMaxPlayers, gameMode \in GameModes :
       Unchanged(handleJoinRoom(rooms, socket, rid, playerName, TRUE, maxPlayers,
                                gameMode))

\* a create is answered 'Room is full' and leaves a room without players behind
EmptyRoomLeft ==
  \E rid \in RoomIds, socket \in Sockets, playerName \in PlayerNames,
     maxPlayers \in RequestedMaxPlayers, gameMode \in GameModes :
    LET r == handleJoinRoom(rooms, socket, rid, playerName, TRUE, maxPlayers, gameMode)
    IN  /\ r.error = "Room is full"
        /\ rid \notin DOMAIN rooms
        /\ rid \in DOMAIN r.rooms
        /\ r.rooms[rid].players = << >>

\* raw guesses sent to a room, in either case
CasedGuesses == RoomGuesses \cup {<<"h","e","l","l","o">>}

\* the message a room-level guess must be rejected with ("" when it must be processed)
GuessRejection(room, socket) ==
  LET player == getPlayerBySocketId(room, socket)
  IN  IF player.id = NoPlayer.id THEN "Player not found"
      ELSE IF room.gameState # "PLAYING" THEN "Game not in progress"
      ELSE IF player.status # "PLAYING" THEN "Player not active"
      ELSE NoError

\* the rejections of a room-level guess and the entry an accepted guess appends;
\* always says that the entry must be in the list whatever the guess did to the round
GuessProcessed(rid, socket, guess, rnd, always) ==
  LET room == rooms[rid]
      r == MultiplayerGame_makeGuess(room, socket, guess, rnd)
      player == getPlayerBySocketId(room, socket)
  IN  /\ GuessRejection(room, socket) # NoError =>
           r.error = GuessRejection(room, socket) /\ r.room = room
      /\ (GuessRejection(room, socket) = NoError /\ r.error = NoError /\ r.result.valid) =>
           LET entry == [guess    |-> toUpperCase(guess),
                         feedback |-> r.result.feedback,
                         round    |-> room.currentRound]
               q == GetPlayer(r.room.players, player.id)
           IN  IF always \/ r.room.currentRound = room.currentRound
               THEN q.guesses = Append(player.guesses, entry)
               ELSE /\ r.result.status \in {"WIN", "LOSE"}
                    /\ r.room.currentRound = room.currentRound + 1
                    /\ q.guesses = << >>

\* C26 as stated: a room-level guess is rejected with 'Player not found', 'Game not
\* in progress' or 'Player not active' when the connection is bound to no player of
\* the room, the room is not PLAYING or the player is not PLAYING, before any
\* session is touched; an accepted valid guess appends exactly one entry (the guess
\* in upper case, the feedback, the current round) to the guess list of the player.
C26_RoomGuess ==
  \A rid \in DOMAIN rooms, socket \in Sockets, guess \in CasedGuesses, rnd \in RoomDraws :
    GuessProcessed(rid, socket, guess, rnd, TRUE)

\* C26, amended: the same, except that the entry is in the guess list after the
\* guess only when the guess does not end a round below the cap; a guess that ends
\* the player's session as the last of the round starts the next round, and the
\* guess list of the player is empty.
C26_RoomGuessUnlessRoundEnds ==
  \A rid \in DOMAIN rooms, socket \in Sockets, guess \in CasedGuesses, rnd \in RoomDraws :
    GuessProcessed(rid, socket, guess, rnd, FALSE)

\* a lower-case guess of a PLAYING player in round 2 is accepted and appended in
\* upper case with the round number 2, and the guess of a FINISHED player is
\* rejected with 'Player not active'
C26_Witness ==
  \E rid \in DOMAIN rooms, socket, other \in Sockets, rnd \in RoomDraws :
    LET room == rooms[rid]
        lower == <<"h","e","l","l","o">>
        r == MultiplayerGame_makeGuess(room, socket, lower, rnd)
        player == getPlayerBySocketId(room, socket)
    IN  /\ room.currentRound = 2
        /\ player.id # NoPlayer.id
        /\ r.error = NoError /\ r.result.valid
        /\ GetPlayer(r.room.players, player.id).guesses
             = Append(player.guesses, [guess |-> HELLO, feedback |-> r.result.feedback,
                                       round |-> 2])
        /\ getPlayerBySocketId(r.room, socket).status = "FINISHED"
        /\ MultiplayerGame_makeGuess(r.room, socket, lower, rnd).error = "Player not active"
        /\ MultiplayerGame_makeGuess(r.room, other, lower, rnd).error = NoError

\* C27: createRoom always succeeds and returns a new room whose identifier no room of
\* the registry had: when the identifier generated first is that of an existing
\* room another one is generated, and no existing room is replaced or lost.
C27_CreateRoomSucceeds ==
  \A generated \in RoomIds, maxPlayers \in MaxPlayersChoices, gameMode \in GameModes :
    LET c == createRoom(rooms, generated, maxPlayers, gameMode)
    IN  /\ c.error = NoError
        /\ \E rid \in DOMAIN c.rooms \ DOMAIN rooms :
             c.rooms[rid] = MultiplayerGame(rid, maxPlayers, gameMode, clock(rooms))
        /\ \A rid \in DOMAIN rooms : rid \in DOMAIN c.rooms /\ c.rooms[rid] = rooms[rid]

\* the identifier generated is that of a room with players, and createRoom throws
CreateRoomCollides ==
  \E generated \in RoomIds, maxPlayers \in MaxPlayersChoices, gameMode \in GameModes :
    /\ generated \in DOMAIN rooms
    /\ rooms[generated].players # << >>
    /\ createRoom(rooms, generated, maxPlayers, gameMode).error = "TypeError"

\* the player with the persistent identifier pid is in a room, disconnected
Disconnected(pid) ==
  \E rid \in DOMAIN rooms :
    /\ HasPlayer(rooms[rid].players, pid)
    /\ GetPlayer(rooms[rid].players, pid).status = "DISCONNECTED"

\* C28: a player who disconnects and does not reconnect is eventually removed from
\* the room for good, whatever the other players do and without another disconnect
\* in the room: a disconnected player does not stay disconnected for ever.
C28_DisconnectedRemoved ==
  \A k \in 1..Len(PlayerIds) : Disconnected(PlayerIds[k]) ~> ~Disconnected(PlayerIds[k])

\* a disconnected player past the sweep timeout in a room in which no sweep is armed
\* and another player is connected: no timer is left that would remove the player
NoSweepArmed ==
  \E rid \in DOMAIN rooms :
    /\ sweepTimer = << >>
    /\ rooms[rid].lastActivity = "recent"
    /\ \E k \in 1..Len(rooms[rid].players) :
         /\ rooms[rid].players[k].status = "DISCONNECTED"
         /\ rooms[rid].players[k].lastSeen = "old"
    /\ ActivePlayers(rooms[rid]) # {}

\* the player of the room with the given persistent id, as the ranking must show it
RankedAs(room, entry) ==
  \E k \in 1..Len(room.players) :
    /\ room.players[k].id = entry.playerId
    /\ room.players[k].name = entry.name
    /\ room.players[k].score = entry.score

\* C29: calculateRankings returns one entry for each player of the room,
\* ranked 1..n in order, by descending cumulative score: an entry of lower
\* rank never has a lower score than an entry of higher rank.
C29_Rankings ==
  \A rid \in DOMAIN rooms :
    LET room == rooms[rid]
        rankings == calculateRankings(room)
    IN  /\ Len(rankings) = Len(room.players)
        /\ \A k \in 1..Len(room.players) :
             Cardinality({i \in 1..Len(rankings) :
                            rankings[i].playerId = room.players[k].id}) = 1
        /\ \A i \in 1..Len(rankings) :
             /\ rankings[i].rank = i
             /\ RankedAs(room, rankings[i])
        /\ \A i, j \in 1..Len(rankings) :
             i < j => rankings[i].score >= rankings[j].score

\* a finished game in which the player who joined second has the higher score,
\* so that the ranking is not the order of joining
C29_Witness ==
  \E rid \in DOMAIN rooms :
    /\ rooms[rid].gameState = "FINISHED"
    /\ Len(rooms[rid].players) = 2
    /\ rooms[rid].players[1].score < rooms[rid].players[2].score
    /\ rooms[rid].players[1].score > 0
    /\ calculateRankings(rooms[rid])[1].playerId = rooms[rid].players[2].id

\* the words guessed so far in the session, in order
GuessedSoFar == [k \in 1..Len(game.guesses) |-> game.guesses[k].guess]

\* C30: on the README's word list the candidates are FANCY, PANIC, CRAZY,
\* BUGGY after the guess HELLO, then FANCY, PANIC, BUGGY after the guess
\* WORLD, then PANIC, BUGGY after the guess CRAZY, for which PANIC is the
\* answer selected.
C30_ReadmeExample ==
  /\ GuessedSoFar = <<HELLO>> => game.candidates = <<FANCY, PANIC, CRAZY, BUGGY>>
  /\ GuessedSoFar = <<HELLO, WORLD>> => game.candidates = <<FANCY, PANIC, BUGGY>>
  /\ GuessedSoFar = <<HELLO, WORLD, CRAZY>> =>
       /\ game.candidates = <<PANIC, BUGGY>>
       /\ game.currentAnswer = PANIC

\* the example flow up to its last step, as the session plays it: PANIC is
\* selected and is the only candidate left
ExampleEndsWithPanicOnly ==
  /\ GuessedSoFar = <<HELLO, WORLD, CRAZY>>
  /\ game.currentAnswer = PANIC
  /\ game.candidates = <<PANIC>>

\* the first two steps of the example flow are as the README gives them
ExampleFirstTwoSteps ==
  /\ GuessedSoFar = <<HELLO>> => game.candidates = <<FANCY, PANIC, CRAZY, BUGGY>>
  /\ GuessedSoFar = <<HELLO, WORLD>> => game.candidates = <<FANCY, PANIC, BUGGY>>

\* the number of entries of a feedback that carry the given mark
Marked(fb, mark) == Cardinality({i \in 1..5 : fb[i] = mark})

\* C31: for every candidate and guess, calculateScore(candidate, guess) gives
\* as hits and presents the number of hit entries and of present entries of
\* the feedback the scorer gives for the guess against the candidate.
C31_ScoreIsFeedbackCount ==
  pc = "scoredCheating" =>
    calculateScore(inAnswer, inGuess) =
      [hits |-> Marked(feedback, "hit"), presents |-> Marked(feedback, "present")]

\* the hits of calculateScore are the hits of the feedback for every pair
CalculateScoreHitsAgree ==
  pc = "scoredCheating" =>
    calculateScore(inAnswer, inGuess).hits = Marked(feedback, "hit")

\* a guess letter that is no hit is counted present against a candidate
\* position that is a hit, which the feedback marks miss
PresentAgainstHit ==
  /\ pc = "scoredCheating"
  /\ calculateScore(inAnswer, inGuess).presents > Marked(feedback, "present")

\* the connection is bound to the host player of the room
BoundToHost(room, socket) ==
  LET player == getPlayerBySocketId(room, socket)
  IN  player.id # NoPlayer.id /\ player.isHost

\* the startGame event sent over a connection: the handler reads the roomId of
\* the payload and nothing of the connection that sent it
StartGameFrom(rms, socket, roomId, rnd) == handleStartGame(rms, roomId, rnd)

\* C32: a start command from a connection that is not bound to the host player
\* of the room (a non-host player, or a connection bound to no player of the
\* room) is rejected and leaves the room WAITING.
C32_StartByHostOnly ==
  \A rid \in DOMAIN rooms, socket \in Sockets, rnd \in RoomDraws :
    (rooms[rid].gameState = "WAITING" /\ ~BoundToHost(rooms[rid], socket))
      => LET r == StartGameFrom(rooms, socket, rid, rnd)
         IN  r.error # NoError /\ r.rooms[rid].gameState = "WAITING"

\* a waiting room with two players and a connection bound to the player who is
\* not the host: the start that connection sends is accepted
NonHostStarts ==
  \E rid \in DOMAIN rooms, socket \in Sockets, rnd \in RoomDraws :
    /\ rooms[rid].gameState = "WAITING"
    /\ getPlayerBySocketId(rooms[rid], socket).id # NoPlayer.id
    /\ ~getPlayerBySocketId(rooms[rid], socket).isHost
    /\ StartGameFrom(rooms, socket, rid, rnd).error = NoError
    /\ StartGameFrom(rooms, socket, rid, rnd).rooms[rid].gameState = "PLAYING"

\* a waiting room with two players one of whom is disconnected, and a connection
\* bound to no player of the room: the start that connection sends is accepted
StrangerStarts ==
  \E rid \in DOMAIN rooms, socket \in Sockets, rnd \in RoomDraws :
    /\ rooms[rid].gameState = "WAITING"
    /\ getPlayerBySocketId(rooms[rid], socket).id = NoPlayer.id
    /\ StartGameFrom(rooms, socket, rid, rnd).rooms[rid].gameState = "PLAYING"

\* the guess ends the session of the player who sends it, and no other player of
\* the room is PLAYING: it turns the last PLAYING player into FINISHED
FinishesLastPlayer(room, socket, guess, rnd) ==
  LET player == getPlayerBySocketId(room, socket)
      r == MultiplayerGame_makeGuess(room, socket, guess, rnd)
  IN  /\ player.id # NoPlayer.id
      /\ room.gameState = "PLAYING"
      /\ player.status = "PLAYING"
      /\ r.error = NoError
      /\ r.result.valid
      /\ r.result.status \in {"WIN", "LOSE"}
      /\ \A k \in 1..Len(room.players) :
           room.players[k].id # player.id => room.players[k].status # "PLAYING"

\* C33: whatever the order in which the guesses of the players arrive, the end
\* of a round is detected exactly once: the guess that turns the last PLAYING
\* player into FINISHED increases currentRound by one, or makes the room
\* FINISHED at the round cap, and no other guess changes currentRound or the
\* state of the room.
C33_RoundEndDetectedOnce ==
  \A rid \in DOMAIN rooms, socket \in Sockets, guess \in CasedGuesses, rnd \in RoomDraws :
    LET room == rooms[rid]
        after == handleMakeGuess(rooms, socket, rid, guess, rnd).rooms[rid]
    IN  IF FinishesLastPlayer(room, socket, guess, rnd)
        THEN IF room.currentRound >= RoundCap
             THEN after.gameState = "FINISHED" /\ after.currentRound = room.currentRound
             ELSE after.gameState = "PLAYING" /\ after.currentRound = room.currentRound + 1
        ELSE after.gameState = room.gameState /\ after.currentRound = room.currentRound

\* in the last round one player is FINISHED and the other sends the guess that
\* ends the round: the room is FINISHED; and the guess of a player whose
\* companion is still PLAYING ends that player's session and no round
C33_Witness ==
  \E rid \in DOMAIN rooms, socket \in Sockets, guess \in CasedGuesses, rnd \in RoomDraws :
    LET room == rooms[rid]
        r == MultiplayerGame_makeGuess(room, socket, guess, rnd)
    IN  /\ Len(room.players) = 2
        /\ room.currentRound = RoundCap
        /\ \E k \in 1..2 : room.players[k].status = "FINISHED"
        /\ FinishesLastPlayer(room, socket, guess, rnd)
        /\ r.room.gameState = "FINISHED"

\* the secret a session scores against: the answer of a fixed-answer session, the
\* answer an adversarial session selected for its last guess (Null before any)
SecretOf(g) == IF g.kind = "normal" THEN g.answer ELSE g.currentAnswer

\* a valid guess wins a fresh fixed-answer session with the given answer
Winnable(room, answer) ==
  \E k \in 1..Len(room.wordList) :
    LET guess == toUpperCase(room.wordList[k])
        g == WordleGame(room.wordList, SessionRounds, answer, 1)
    IN  /\ validateGuess(guess).valid
        /\ WordleGame_makeGuess(g, guess).result.status = "WIN"

\* C34: every secret answer used by the sessions of a room (chosen at
\* startGame, at a new round, or copied on a reconnect) is a 5-character
\* upper-case word over A-Z of the word list of the room, so that in
\* fixed-answer mode every round has a valid guess that wins it.
C34_AnswersAreWords ==
  \A rid \in DOMAIN rooms :
    LET room == rooms[rid]
    IN  \A pid \in DOMAIN room.playerGames :
          LET g == room.playerGames[pid]
          IN  SecretOf(g) # Null =>
                /\ matchesAZ5(SecretOf(g))
                /\ \E k \in 1..Len(room.wordList) :
                     toUpperCase(room.wordList[k]) = SecretOf(g)
                /\ g.kind = "normal" => Winnable(room, g.answer)

\* a fixed-answer round whose secret is the 3-character entry of the word list:
\* the session of a player is over and lost after six valid guesses
ThreeLetterSecret ==
  \E rid \in DOMAIN rooms :
    \E pid \in DOMAIN rooms[rid].playerGames :
      LET g == rooms[rid].playerGames[pid]
      IN  /\ g.kind = "normal"
          /\ g.answer = <<"V","G","Y">>
          /\ g.status = "LOSE"

\* every secret of a session is an entry of the word list of the room in upper case
SecretFromWordList ==
  \A rid \in DOMAIN rooms :
    \A pid \in DOMAIN rooms[rid].playerGames :
      LET g == rooms[rid].playerGames[pid]
      IN  SecretOf(g) # Null =>
            \E k \in 1..Len(rooms[rid].wordList) :
              toUpperCase(rooms[rid].wordList[k]) = SecretOf(g)

\* the elements of a sequence
Range(seq) == {seq[k] : k \in 1..Len(seq)}

C36_StatusMatchesSession ==
  \A rid \in DOMAIN rooms :
    LET room == rooms[rid]
    IN  room.gameState = "PLAYING" =>
          \A k \in 1..Len(room.players) :
            LET player == room.players[k]
            IN  /\ player.status = "PLAYING" =>
                     /\ player.id \in DOMAIN room.playerGames
                     /\ room.playerGames[player.id].status = "IN_PROGRESS"
                /\ player.status = "FINISHED" =>
                     /\ player.id \in DOMAIN room.playerGames
                     /\ room.playerGames[player.id].status \in {"WIN", "LOSE"}

\* a player who finished the round, disconnected and came back: the status is
\* PLAYING, the session is over, and the valid guess the player sends is not accepted
PlayingWithSessionOver ==
  \E rid \in DOMAIN rooms, socket \in Sockets, rnd \in RoomDraws :
    LET room == rooms[rid]
        player == getPlayerBySocketId(room, socket)
    IN  /\ room.gameState = "PLAYING"
        /\ player.id # NoPlayer.id
        /\ player.status = "PLAYING"
        /\ player.id \in DOMAIN room.playerGames
        /\ room.playerGames[player.id].status \in {"WIN", "LOSE"}
        /\ ~MultiplayerGame_makeGuess(room, socket, HELLO, rnd).result.valid

\* the connection ids bound to a player of a room
BoundSockets(room, pid) ==
  {s \in DOMAIN room.socketToPlayer : room.socketToPlayer[s] = pid}

\* every connection id of the connection map refers to a player of the room, and
\* no two connection ids refer to the same player
BindingsWellFormed(room) ==
  /\ \A s \in DOMAIN room.socketToPlayer : HasPlayer(room.players, room.socketToPlayer[s])
  /\ \A s, t \in DOMAIN room.socketToPlayer :
       room.socketToPlayer[s] = room.socketToPlayer[t] => s = t

\* C37: after any sequence of join, disconnect, reconnect, leave and sweep
\* commands, every connection id in the connection map of a room refers to a
\* player of that room, no two connection ids map to the same player, a
\* connection is bound to at most one player over all rooms, and a player has
\* status DISCONNECTED exactly when no connection id is bound to it.
C37_Bindings ==
  /\ \A rid \in DOMAIN rooms : BindingsWellFormed(rooms[rid])
  /\ \A s \in Sockets :
       Cardinality({rid \in DOMAIN rooms : s \in DOMAIN rooms[rid].socketToPlayer}) <= 1
  /\ \A rid \in DOMAIN rooms :
       \A k \in 1..Len(rooms[rid].players) :
         rooms[rid].players[k].status = "DISCONNECTED"
           <=> BoundSockets(rooms[rid], rooms[rid].players[k].id) = {}

\* a connection joined twice: the player of its first join is READY and no connection
\* is bound to it
UnboundButConnected ==
  \E rid \in DOMAIN rooms :
    \E k \in 1..Len(rooms[rid].players) :
      /\ rooms[rid].players[k].status = "READY"
      /\ BoundSockets(rooms[rid], rooms[rid].players[k].id) = {}
      /\ \E s \in DOMAIN rooms[rid].socketToPlayer :
           rooms[rid].socketToPlayer[s] # rooms[rid].players[k].id

\* the connection map itself stays well formed in every reachable room
BindingsStayWellFormed == \A rid \in DOMAIN rooms : BindingsWellFormed(rooms[rid])

\* the guesses and feedback of a guess list, without the round numbers
GuessesAndFeedback(guesses) ==
  [k \in 1..Len(guesses) |-> [guess |-> guesses[k].guess, feedback |-> guesses[k].feedback]]

\* C38: whenever a room is PLAYING, for every player that has a session, the
\* guess list of the player for the round holds the same guesses and feedback,
\* in the same order and number, as the guess list of the session, so that the
\* roundsLeft broadcast is 6 less the number of guesses of the session; also
\* for a player who was disconnected while a new round started and reconnected.
C38_GuessListsAgree ==
  \A rid \in DOMAIN rooms :
    LET room == rooms[rid]
    IN  room.gameState = "PLAYING" =>
          \A k \in 1..Len(room.players) :
            LET player == room.players[k]
            IN  player.id \in DOMAIN room.playerGames =>
                  /\ GuessesAndFeedback(player.guesses)
                       = GuessesAndFeedback(room.playerGames[player.id].guesses)
                  /\ broadcastRoundsLeft(room, player)
                       = 6 - Len(room.playerGames[player.id].guesses)

\* a player who guessed in one round, was disconnected when the next round
\* started and reconnected: the session is fresh, the guess list still holds the
\* guess of the round before, and roundsLeft is broadcast as 5
StaleGuessList ==
  \E rid \in DOMAIN rooms :
    \E k \in 1..Len(rooms[rid].players) :
      LET room == rooms[rid]
          player == room.players[k]
      IN  /\ room.gameState = "PLAYING"
          /\ room.currentRound = 2
          /\ player.status = "PLAYING"
          /\ player.id \in DOMAIN room.playerGames
          /\ room.playerGames[player.id].guesses = << >>
          /\ Len(player.guesses) = 1
          /\ player.guesses[1].round = 1
          /\ broadcastRoundsLeft(room, player) = 5

\* the player with the given id is in both rooms with the same guess list, score,
\* status, ready flag and host flag, and the same session or none
OtherPlayerKept(before, after, pid) ==
  /\ HasPlayer(after.players, pid)
  /\ LET p == GetPlayer(before.players, pid)
         q == GetPlayer(after.players, pid)
     IN  /\ q.guesses = p.guesses
         /\ q.score = p.score
         /\ q.status = p.status
         /\ q.readyForNextRound = p.readyForNextRound
         /\ q.isHost = p.isHost
  /\ pid \in DOMAIN after.playerGames <=> pid \in DOMAIN before.playerGames
  /\ pid \in DOMAIN before.playerGames =>
       after.playerGames[pid] = before.playerGames[pid]

\* the guesses whose frame is checked: those of the clients, in both cases
FrameGuesses == CasedGuesses \cup RoundGuesses

\* C39: a guess of one player, accepted or rejected, that does not end the
\* round leaves the guess list, score, status, ready flag, host flag,
\* connection binding and session of every other player unchanged.
C39_GuessFrame ==
  \A rid \in DOMAIN rooms, socket \in Sockets, guess \in FrameGuesses, rnd \in RoomDraws :
    LET room == rooms[rid]
        after == handleMakeGuess(rooms, socket, rid, guess, rnd).rooms[rid]
        sender == getPlayerBySocketId(room, socket)
    IN  (after.currentRound = room.currentRound /\ after.gameState = room.gameState) =>
          /\ after.socketToPlayer = room.socketToPlayer
          /\ Len(after.players) = Len(room.players)
          /\ \A k \in 1..Len(room.players) :
               room.players[k].id # sender.id =>
                 OtherPlayerKept(room, after, room.players[k].id)

\* a player has won the round with a score and a guess list; the other player
\* sends a valid guess that is accepted and does not end the round
C39_Witness ==
  \E rid \in DOMAIN rooms, socket \in Sockets, guess \in FrameGuesses, rnd \in RoomDraws :
    LET room == rooms[rid]
        r == handleMakeGuess(rooms, socket, rid, guess, rnd)
        sender == getPlayerBySocketId(room, socket)
    IN  /\ sender.id # NoPlayer.id
        /\ r.error = NoError /\ r.result.valid /\ r.result.status = "IN_PROGRESS"
        /\ r.rooms[rid].currentRound = room.currentRound
        /\ \E k \in 1..Len(room.players) :
             /\ room.players[k].id # sender.id
             /\ room.players[k].status = "FINISHED"
             /\ room.players[k].score > 0
             /\ Len(room.players[k].guesses) >= 2
             /\ OtherPlayerKept(room, r.rooms[rid], room.players[k].id)

\* the room exists and is in the given state
RoomIn(rid, state) == rid \in DOMAIN rooms /\ rooms[rid].gameState = state

\* no valid guess of a client throws, no session or guess list of a round holds
\* more than six guesses, and a finished room is in its fifth round
GuessesBounded ==
  /\ \A rid \in DOMAIN rooms, socket \in Sockets, rnd \in RoomDraws :
       \A guess \in ClientGuesses(socket) :
         handleMakeGuess(rooms, socket, rid, guess, rnd).error # "TypeError"
  /\ \A rid \in DOMAIN rooms :
       /\ \A pid \in DOMAIN rooms[rid].playerGames :
            Len(rooms[rid].playerGames[pid].guesses) <= SessionRounds
       /\ \A k \in 1..Len(rooms[rid].players) :
            Len(rooms[rid].players[k].guesses) <= SessionRounds
       /\ rooms[rid].gameState = "FINISHED" => rooms[rid].currentRound = RoundCap

\* C40: in a started room where no player disconnects or leaves and every
\* player keeps submitting valid guesses, the room eventually reaches
\* FINISHED, after exactly 5 rounds in each of which every player makes at most
\* 6 accepted guesses, and no guess throws or leaves a player unable to go on.
C40_ReachesFinished ==
  /\ \A rid \in RoomIds : RoomIn(rid, "PLAYING") ~> RoomIn(rid, "FINISHED")
  /\ []GuessesBounded

\* the same for the rooms in fixed-answer mode alone
FixedAnswerReachesFinished ==
  /\ \A rid \in RoomIds :
       (RoomIn(rid, "PLAYING") /\ rooms[rid].gameMode = "normal") ~> RoomIn(rid, "FINISHED")
  /\ [](\A rid \in DOMAIN rooms :
          rooms[rid].gameMode = "normal" =>
            /\ \A socket \in Sockets, rnd \in RoomDraws :
                 \A guess \in ClientGuesses(socket) :
                   handleMakeGuess(rooms, socket, rid, guess, rnd).error # "TypeError"
            /\ \A pid \in DOMAIN rooms[rid].playerGames :
                 Len(rooms[rid].playerGames[pid].guesses) <= SessionRounds
            /\ rooms[rid].gameState = "FINISHED" => rooms[rid].currentRound = RoundCap)

\* a player of an adversarial round whose session has no candidate left: the
\* session is IN_PROGRESS, the player is PLAYING, and every valid guess throws
NoCandidateLeft ==
  \E rid \in DOMAIN rooms, socket \in Sockets, rnd \in RoomDraws :
    LET room == rooms[rid]
        player == getPlayerBySocketId(room, socket)
    IN  /\ room.gameState = "PLAYING"
        /\ player.id # NoPlayer.id
        /\ player.status = "PLAYING"
        /\ room.playerGames[player.id].status = "IN_PROGRESS"
        /\ room.playerGames[player.id].candidates = << >>
        /\ \A guess \in ClientGuesses(socket) :
             /\ handleMakeGuess(rooms, socket, rid, guess, rnd).error = "TypeError"
             /\ handleMakeGuess(rooms, socket, rid, guess, rnd).rooms[rid].gameState = "PLAYING"

====
